---- MODULE Spec2Model ----
(***************************************************************************)
(* A model of the paged B+ tree store of src/final/db.py: the pager (file, *)
(* page cache, num_pages), the node codec, the tree operations (search,    *)
(* leaf insert, leaf split, root creation, internal insert, internal       *)
(* split), the cursor scan and the session commands (insert, select,       *)
(* .btree, .exit, end of input, reopening the file, lines answered with an *)
(* error).  Spec runs sessions of the program on a workload of rows;       *)
(* PagerSpec calls Pager.get_page by itself up to and past the page cap,   *)
(* PrepareSpec applies prepare_statement to insert lines, SplitSpec runs   *)
(* the first LEAF_NODE_MAX_CELLS + 1 inserts in every order, FindSpec      *)
(* applies the two binary searches to nodes of every size, RootSpec and    *)
(* AdoptSpec run the inserts of the workload with create_new_root and      *)
(* internal_node_insert applied to the nodes they build, and ScanSpec runs *)
(* them with the scan of execute_select taken one cursor_advance at a      *)
(* time.  StartSpec applies table_start after every insert, DeepSpec       *)
(* executes one long shuffled list of inserts, CutSpec starts the program  *)
(* on files that end inside a page, and WideSpec adds insert lines whose   *)
(* id is wider than four bytes.                                            *)
(*                                                                         *)
(* A page is modelled by the fields the code can read from it: the common  *)
(* header, the word at offset 6 (num_cells of a leaf, num_keys of an       *)
(* internal node), the word at offset 10 (next_leaf / right_child), the    *)
(* leaf cells and the internal cells.  A fixed-width NUL-padded string     *)
(* field is represented by its bytes up to the last non-NUL byte; all      *)
(* bytes after them are NUL.                                               *)
(***************************************************************************)
EXTENDS Integers, Sequences, FiniteSets, TLC

\* ------------------------------------------------------------ constants
COLUMN_USERNAME_SIZE == 32
COLUMN_EMAIL_SIZE == 255
ID_SIZE == 4
ROW_SIZE == ID_SIZE + COLUMN_USERNAME_SIZE + COLUMN_EMAIL_SIZE
PAGE_SIZE == 4096
TABLE_MAX_PAGES == 400
\* 0xFFFFFFFF, the largest 32-bit unsigned word.  TLC's integers are 32-bit
\* signed, so the word is represented by the largest of them but one; every
\* other word the model handles (page numbers, keys, counts) is far below
\* it.  The largest TLC integer, WideId, stands for every integer above
\* 0xFFFFFFFF: it compares above every word, and no 4-byte field holds it.
INVALID_PAGE_NUM == 2147483646
WideId == INVALID_PAGE_NUM + 1

NODE_TYPE_SIZE == 1
IS_ROOT_SIZE == 1
PARENT_POINTER_SIZE == 4
COMMON_NODE_HEADER_SIZE == NODE_TYPE_SIZE + IS_ROOT_SIZE + PARENT_POINTER_SIZE

INTERNAL_NODE_NUM_KEYS_SIZE == 4
INTERNAL_NODE_RIGHT_CHILD_SIZE == 4
INTERNAL_NODE_HEADER_SIZE ==
    COMMON_NODE_HEADER_SIZE + INTERNAL_NODE_NUM_KEYS_SIZE + INTERNAL_NODE_RIGHT_CHILD_SIZE
INTERNAL_NODE_KEY_SIZE == 4
INTERNAL_NODE_CHILD_SIZE == 4
INTERNAL_NODE_CELL_SIZE == INTERNAL_NODE_CHILD_SIZE + INTERNAL_NODE_KEY_SIZE
INTERNAL_NODE_MAX_KEYS == 3

LEAF_NODE_NUM_CELLS_SIZE == 4
LEAF_NODE_NEXT_LEAF_SIZE == 4
LEAF_NODE_HEADER_SIZE ==
    COMMON_NODE_HEADER_SIZE + LEAF_NODE_NUM_CELLS_SIZE + LEAF_NODE_NEXT_LEAF_SIZE
LEAF_NODE_KEY_SIZE == 4
LEAF_NODE_VALUE_SIZE == ROW_SIZE
LEAF_NODE_CELL_SIZE == LEAF_NODE_KEY_SIZE + LEAF_NODE_VALUE_SIZE
LEAF_NODE_SPACE_FOR_CELLS == PAGE_SIZE - LEAF_NODE_HEADER_SIZE
LEAF_NODE_MAX_CELLS == LEAF_NODE_SPACE_FOR_CELLS \div LEAF_NODE_CELL_SIZE

LEAF_NODE_RIGHT_SPLIT_COUNT == (LEAF_NODE_MAX_CELLS + 1) \div 2
LEAF_NODE_LEFT_SPLIT_COUNT == (LEAF_NODE_MAX_CELLS + 1) - LEAF_NODE_RIGHT_SPLIT_COUNT

\* NodeType
INTERNAL == 0
LEAF == 1

\* ---------------------------------------------------------------- bounds
\* The recursion depth allowed to a descent of the tree (a descent that
\* would go deeper is cut, which no reachable tree needs).
MaxDepth == 6

\* The rows a session is given (the workload).  A bulk load supplies the
\* ids KeyGap, 2 * KeyGap, ... in ascending order, the first Shuffle of them
\* in any order, until BaseLeaves leaves are filled to their split size.
\* Then come at most MaxBursts bursts of LEAF_NODE_LEFT_SPLIT_COUNT rows
\* each; a burst supplies consecutive ids that ascend from, or descend
\* from, the id BurstAt * KeyGap, continuing where the last burst of its
\* direction stopped.  At any time a session may also supply again an id of
\* ProbeIds that it has supplied before.
KeyGap == 100
Shuffle == 3
BaseLeaves == 9
BurstAt == 15
MaxBursts == 6

\* The file is opened by at most MaxSessions sessions.  The first session
\* ends after a whole number of SessionEvery rows of the workload, and the
\* sessions after it supply at most MaxLater rows of the workload between
\* them and end at any time.
MaxSessions == 2
SessionEvery == 14
MaxLater == 1

\* The pager by itself: get_page is asked for the pages 0 .. FetchLow of the
\* store and for the FetchOver page numbers after TABLE_MAX_PAGES.
FetchLow == 1
FetchOver == 2

\* prepare_statement by itself: the usernames and emails are up to
\* PrepareSlack characters shorter or longer than the column.
PrepareSlack == 2

\* The searches by themselves: the keys of a node are the doubles of numbers
\* of 1 .. FindKeys (a leaf may also hold the doubles of 1 .. n for every n
\* up to LEAF_NODE_MAX_CELLS), the key looked for is any number around them.
FindKeys == 6
\* A scan is started after every ScanEvery-th insert of the workload.
ScanEvery == 3

\* ------------------------------------------------------------------ rows
NUL == 0

RECURSIVE RStrip(_)
\* str.rstrip('\x00'): the string without its trailing NUL characters.
RStrip(u) ==
    IF u = <<>> THEN u
    ELSE IF u[Len(u)] = NUL THEN RStrip(SubSeq(u, 1, Len(u) - 1))
    ELSE u

\* struct's 's' field of `size` bytes: the bytes cut to size and NUL-padded,
\* represented by the bytes before the trailing NULs.
PackField(u, size) ==
    RStrip(IF Len(u) > size THEN SubSeq(u, 1, size) ELSE u)

\* Byte j (0-based) of a NUL-padded string field.
ByteAt(u, j) == IF j < Len(u) THEN u[j + 1] ELSE NUL

\* The little-endian unsigned 32-bit word at bytes j..j+3 of a string field.
LE32(u, j) ==
    ByteAt(u, j) + 256 * ByteAt(u, j + 1) + 65536 * ByteAt(u, j + 2)
        + 16777216 * ByteAt(u, j + 3)

Row(id, username, email) == [id |-> id, username |-> username, email |-> email]

\* The ROW_SIZE bytes struct.pack_into writes for a row.
serialize_row(row) ==
    [id |-> row.id,
     username |-> PackField(row.username, COLUMN_USERNAME_SIZE),
     email |-> PackField(row.email, COLUMN_EMAIL_SIZE)]

\* The row read back from ROW_SIZE bytes.
deserialize_row(data) ==
    Row(data.id, RStrip(data.username), RStrip(data.email))

\* ----------------------------------------------------------------- pages
ZeroValue == [id |-> 0, username |-> <<>>, email |-> <<>>]
ZeroLeafCell == [key |-> 0, value |-> ZeroValue]
ZeroInternalCell == [child |-> 0, key |-> 0]

\* The internal cell slots the model keeps: slots 0 .. INTERNAL_NODE_MAX_KEYS
\* (update_internal_node_key may write the slot at index num_keys).
InternalSlots == 0 .. INTERNAL_NODE_MAX_KEYS
LeafSlots == 0 .. (LEAF_NODE_MAX_CELLS - 1)

\* bytearray(PAGE_SIZE): a zero-filled page.
ZeroPage ==
    [node_type |-> 0, is_root |-> 0, parent |-> 0, num |-> 0, link |-> 0,
     lcells |-> [i \in LeafSlots |-> ZeroLeafCell],
     icells |-> [i \in InternalSlots |-> ZeroInternalCell]]

\* The internal cell i that the bytes of a leaf page spell: internal cells
\* start at the same offset as leaf cell 0, whose key, row id and username
\* bytes they overlay.
OverlayCell(node, i) ==
    LET c0 == node.lcells[0]
    IN IF i = 0 THEN [child |-> c0.key, key |-> c0.value.id]
       ELSE [child |-> LE32(c0.value.username, INTERNAL_NODE_CELL_SIZE * i - 8),
             key |-> LE32(c0.value.username, INTERNAL_NODE_CELL_SIZE * i - 4)]

\* ----------------------------------------------------------------- pager
\* A store value s is the pager of the running session together with the
\* file it reads: s.cache (Pager.pages, page number -> buffer), s.num_pages,
\* s.file (the pages on disk, page n at index n + 1) and s.fatal (the
\* process has called sys.exit(1) or has died of an uncaught exception).

\* What get_page(n) returns or would return: the cached buffer, else the
\* page as read from the file, else a zero page.
Page(s, n) ==
    IF n \in DOMAIN s.cache THEN s.cache[n]
    ELSE IF n < s.num_pages /\ n < Len(s.file) THEN s.file[n + 1]
    ELSE ZeroPage

\* A get_page that reads a page of the file again on every call.
get_page_Reread(s, n) ==
    IF s.fatal THEN s
    ELSE IF n > TABLE_MAX_PAGES THEN [s EXCEPT !.fatal = TRUE]
    ELSE IF n \in DOMAIN s.cache /\ n >= Len(s.file) THEN s
    ELSE [s EXCEPT !.cache = (n :> (IF n < s.num_pages /\ n < Len(s.file)
                                    THEN s.file[n + 1] ELSE ZeroPage)) @@ @,
                   !.num_pages = IF n >= @ THEN n + 1 ELSE @]

\* A get_page that refuses page TABLE_MAX_PAGES too.
get_page_CapInclusive(s, n) ==
    IF s.fatal THEN s
    ELSE IF n >= TABLE_MAX_PAGES THEN [s EXCEPT !.fatal = TRUE]
    ELSE IF n \in DOMAIN s.cache THEN s
    ELSE [s EXCEPT !.cache = (n :> Page(s, n)) @@ @,
                   !.num_pages = IF n >= @ THEN n + 1 ELSE @]

\* A get_page that sets num_pages to n + 1 whenever it adds a buffer.
get_page_Reset(s, n) ==
    IF s.fatal THEN s
    ELSE IF n > TABLE_MAX_PAGES THEN [s EXCEPT !.fatal = TRUE]
    ELSE IF n \in DOMAIN s.cache THEN s
    ELSE [s EXCEPT !.cache = (n :> Page(s, n)) @@ @, !.num_pages = n + 1]

\* Pager.get_page: its effect on the pager.
get_page(s, n) ==
    IF s.fatal THEN s
    ELSE IF n > TABLE_MAX_PAGES THEN [s EXCEPT !.fatal = TRUE]
    ELSE IF n \in DOMAIN s.cache THEN s
    ELSE [s EXCEPT !.cache = (n :> Page(s, n)) @@ @,
                   !.num_pages = IF n >= @ THEN n + 1 ELSE @]

RECURSIVE get_pages(_, _)
\* get_page for each page number of a sequence, in order.
get_pages(s, ns) ==
    IF ns = <<>> THEN s ELSE get_pages(get_page(s, Head(ns)), Tail(ns))

\* A get_unused_page_num that passes over one page.
get_unused_page_num_Next(s) == s.num_pages + 1

\* Pager.get_unused_page_num
get_unused_page_num(s) == s.num_pages

\* A write through the buffer get_page(n) returned.
Put(s, n, node) ==
    IF s.fatal THEN s ELSE [s EXCEPT !.cache = (n :> node) @@ @]

\* ------------------------------------------------------------ node codec
get_node_type(node) == node.node_type
is_node_root(node) == node.is_root # 0
set_node_root(node, is_root) == [node EXCEPT !.is_root = IF is_root THEN 1 ELSE 0]
node_parent(node) == node.parent
set_node_parent(node, parent_page_num) == [node EXCEPT !.parent = parent_page_num]

leaf_node_num_cells(node) == node.num
leaf_node_next_leaf(node) == node.link

leaf_node_cell_offset(cell_num) == LEAF_NODE_HEADER_SIZE + cell_num * LEAF_NODE_CELL_SIZE

\* leaf_node_key: cell_num -1 (the last key of a leaf with no cell) makes
\* struct.unpack_from read at a negative offset, which counts from the end
\* of the page: four bytes inside the e-mail field of the last cell slot.
leaf_node_key(node, cell_num) ==
    IF cell_num >= 0 THEN node.lcells[cell_num].key
    ELSE LET last == LEAF_NODE_MAX_CELLS - 1
             at == PAGE_SIZE + leaf_node_cell_offset(cell_num)
             email_at == leaf_node_cell_offset(last) + LEAF_NODE_KEY_SIZE
                           + ID_SIZE + COLUMN_USERNAME_SIZE
         IN LE32(node.lcells[last].value.email, at - email_at)

initialize_leaf_node(node) ==
    [node EXCEPT !.node_type = LEAF, !.is_root = 0, !.num = 0, !.link = 0]

initialize_internal_node(node) ==
    [node EXCEPT !.node_type = INTERNAL, !.is_root = 0, !.num = 0,
                 !.link = INVALID_PAGE_NUM,
                 !.icells = IF node.node_type = LEAF
                            THEN [i \in InternalSlots |-> OverlayCell(node, i)]
                            ELSE @]

internal_node_num_keys(node) == node.num
internal_node_right_child(node) == node.link

\* internal_node_child exits the process when child_num > num_keys.
internal_node_child_fatal(node, child_num) == child_num > node.num

internal_node_child(node, child_num) ==
    IF child_num >= node.num THEN node.link ELSE node.icells[child_num].child

set_internal_node_child(node, child_num, child_page_num) ==
    IF child_num = node.num THEN [node EXCEPT !.link = child_page_num]
    ELSE [node EXCEPT !.icells[child_num].child = child_page_num]

internal_node_key(node, key_num) == node.icells[key_num].key
set_internal_node_key(node, key_num, key) == [node EXCEPT !.icells[key_num].key = key]

RECURSIVE get_node_max_key(_, _, _)
\* get_node_max_key of the node on page page_num: [key, pages, fatal], the
\* key it returns, the pages it fetches on the way (in order) and whether
\* the process dies on the way (a page number out of bounds, or a descent
\* that does not end).
get_node_max_key(s, page_num, fuel) ==
    LET node == Page(s, page_num)
    IN IF get_node_type(node) = LEAF
       THEN [key |-> leaf_node_key(node, leaf_node_num_cells(node) - 1),
             pages |-> <<>>, fatal |-> FALSE]
       ELSE LET right == internal_node_right_child(node)
            IN IF right > TABLE_MAX_PAGES \/ fuel = 0
               THEN [key |-> 0, pages |-> <<right>>, fatal |-> TRUE]
               ELSE LET r == get_node_max_key(s, right, fuel - 1)
                    IN [key |-> r.key, pages |-> <<right>> \o r.pages,
                        fatal |-> r.fatal]

\* The store after a get_node_max_key call.
AfterMaxKey(s, r) ==
    LET t == get_pages(s, r.pages) IN [t EXCEPT !.fatal = @ \/ r.fatal]

\* A get_node_max_key call with its effect on the store: [key, store].
WithMaxKey(s, r) == [key |-> r.key, store |-> AfterMaxKey(s, r)]
MaxKey(s, page_num) == WithMaxKey(s, get_node_max_key(s, page_num, MaxDepth))

\* ---------------------------------------------------------------- search
RECURSIVE FindChildLoop(_, _, _, _)
\* An internal_node_find_child that passes by a separator equal to the key.
FindChildLoop_Strict(node, key, min_idx, max_idx) ==
    IF min_idx = max_idx THEN min_idx
    ELSE LET index == (min_idx + max_idx) \div 2
         IN IF internal_node_key(node, index) > key
            THEN FindChildLoop(node, key, min_idx, index)
            ELSE FindChildLoop(node, key, index + 1, max_idx)

\* internal_node_find_child: while min_idx != max_idx.
FindChildLoop(node, key, min_idx, max_idx) ==
    IF min_idx = max_idx THEN min_idx
    ELSE LET index == (min_idx + max_idx) \div 2
         IN IF internal_node_key(node, index) >= key
            THEN FindChildLoop(node, key, min_idx, index)
            ELSE FindChildLoop(node, key, index + 1, max_idx)

internal_node_find_child(node, key) ==
    FindChildLoop(node, key, 0, internal_node_num_keys(node))

RECURSIVE LeafFindLoop(_, _, _, _)
\* A leaf_node_find that never looks at the lower half of its range.
LeafFindLoop_Upper(node, key, min_idx, one_past_max) ==
    IF one_past_max = min_idx THEN min_idx
    ELSE LET index == (min_idx + one_past_max) \div 2
             key_at_index == leaf_node_key(node, index)
         IN IF key = key_at_index THEN index
            ELSE IF key < key_at_index THEN index
            ELSE LeafFindLoop(node, key, index + 1, one_past_max)

\* leaf_node_find: while one_past_max != min_idx.
LeafFindLoop(node, key, min_idx, one_past_max) ==
    IF one_past_max = min_idx THEN min_idx
    ELSE LET index == (min_idx + one_past_max) \div 2
             key_at_index == leaf_node_key(node, index)
         IN IF key = key_at_index THEN index
            ELSE IF key < key_at_index THEN LeafFindLoop(node, key, min_idx, index)
            ELSE LeafFindLoop(node, key, index + 1, one_past_max)

\* leaf_node_find: the cell_num of the cursor it returns.
leaf_node_find(s, page_num, key) ==
    LET node == Page(s, page_num)
    IN LeafFindLoop(node, key, 0, leaf_node_num_cells(node))

RECURSIVE internal_node_find(_, _, _, _)
\* An internal_node_find that goes on from the page it is on.
internal_node_find_Stay(s, page_num, key, fuel) ==
    IF fuel = 0 THEN [page_num |-> page_num, pages |-> <<page_num>>, fatal |-> TRUE]
    ELSE LET r == internal_node_find(s, page_num, key, fuel - 1)
         IN [r EXCEPT !.pages = <<page_num>> \o @]

\* internal_node_find: [page_num, pages, fatal], the leaf it ends on, the
\* pages it fetches below page_num, and whether the process dies.
internal_node_find(s, page_num, key, fuel) ==
    LET node == Page(s, page_num)
        child_index == internal_node_find_child(node, key)
        child_num == internal_node_child(node, child_index)
    IN IF child_num > TABLE_MAX_PAGES \/ fuel = 0
       THEN [page_num |-> child_num, pages |-> <<child_num>>, fatal |-> TRUE]
       ELSE IF get_node_type(Page(s, child_num)) = LEAF
       THEN [page_num |-> child_num, pages |-> <<child_num>>, fatal |-> FALSE]
       ELSE LET r == internal_node_find(s, child_num, key, fuel - 1)
            IN [r EXCEPT !.pages = <<child_num>> \o @]

\* table_find: the cursor (page_num, cell_num) and the store after the
\* fetches of the descent.
table_find(s, key) ==
    LET root_page_num == 0
        d == IF get_node_type(Page(s, root_page_num)) = LEAF
             THEN [page_num |-> root_page_num, pages |-> <<>>, fatal |-> FALSE]
             ELSE internal_node_find(s, root_page_num, key, MaxDepth)
        t == get_pages(get_page(s, root_page_num), d.pages)
    IN [page_num |-> d.page_num,
        cell_num |-> IF d.fatal THEN 0 ELSE leaf_node_find(s, d.page_num, key),
        end_of_table |-> FALSE,
        store |-> [t EXCEPT !.fatal = @ \/ d.fatal]]

update_internal_node_key(node, old_key, new_key) ==
    LET old_child_index == internal_node_find_child(node, old_key)
    IN set_internal_node_key(node, old_child_index, new_key)

\* ------------------------------------------------------- writes to a page
\* set_node_parent(get_page(page_num), parent_page_num) on a fetched page
set_parent_of(s, page_num, parent_page_num) ==
    Put(s, page_num, set_node_parent(Page(s, page_num), parent_page_num))

\* A set_internal_node_right_child that leaves the field as it is.
set_right_child_of_Skip(s, page_num, child_page_num) == s

\* set_internal_node_right_child on a fetched page
set_right_child_of(s, page_num, child_page_num) ==
    Put(s, page_num, [Page(s, page_num) EXCEPT !.link = child_page_num])

\* set_internal_node_num_keys on a fetched page
set_num_keys_of(s, page_num, num_keys) ==
    Put(s, page_num, [Page(s, page_num) EXCEPT !.num = num_keys])

\* initialize_internal_node on a fetched page
initialize_internal_at(s, page_num) ==
    Put(s, page_num, initialize_internal_node(Page(s, page_num)))

\* update_internal_node_key on a fetched page
update_key_of(s, page_num, old_key, new_key) ==
    Put(s, page_num, update_internal_node_key(Page(s, page_num), old_key, new_key))

\* --------------------------------------------------------- root creation
RECURSIVE ReparentLoop(_, _, _, _)
\* create_new_root: the loop that re-parents the cell children of the
\* former root to the left child.
ReparentLoop(s, left_child_page_num, i, n) ==
    IF i >= n THEN s
    ELSE ReparentLoop(
             set_parent_of(get_page(s, internal_node_child(Page(s, left_child_page_num), i)),
                           internal_node_child(Page(s, left_child_page_num), i),
                           left_child_page_num),
             left_child_page_num, i + 1, n)

\* A create_new_root that leaves the parent of the left child's right child
\* as it is.
ReparentRight_Skip(a, left_child_page_num) == a

\* create_new_root: the right child of the left child is re-parented too.
ReparentRight(a, left_child_page_num) ==
    set_parent_of(get_page(a, internal_node_right_child(Page(a, left_child_page_num))),
                  internal_node_right_child(Page(a, left_child_page_num)),
                  left_child_page_num)

\* A create_new_root that does not set the key of the root's cell.
NewRootLink_NoKey(left_child_max, left_child_page_num, right_child_page_num) ==
    LET root_page_num == 0
        s8 == left_child_max.store
        root3 == [Page(s8, root_page_num) EXCEPT !.link = right_child_page_num]
    IN set_parent_of(
           set_parent_of(Put(s8, root_page_num, root3), left_child_page_num, root_page_num),
           right_child_page_num, root_page_num)

\* create_new_root, its last lines: the key of the root's only cell, its
\* right child, and the parent fields of the two children.  left_child_max
\* is get_node_max_key(left_child) with the store after it.
NewRootLink(left_child_max, left_child_page_num, right_child_page_num) ==
    LET root_page_num == 0
        s8 == left_child_max.store
        root3 == [set_internal_node_key(Page(s8, root_page_num), 0, left_child_max.key)
                     EXCEPT !.link = right_child_page_num]
    IN set_parent_of(
           set_parent_of(Put(s8, root_page_num, root3), left_child_page_num, root_page_num),
           right_child_page_num, root_page_num)

\* create_new_root from "Initialize new root" on.
NewRootInit(s6, left_child_page_num, right_child_page_num) ==
    LET root_page_num == 0
        root1 == set_node_root(initialize_internal_node(Page(s6, root_page_num)), TRUE)
        root2 == set_internal_node_child([root1 EXCEPT !.num = 1], 0, left_child_page_num)
    IN NewRootLink(MaxKey(Put(s6, root_page_num, root2), left_child_page_num),
                   left_child_page_num, right_child_page_num)

\* create_new_root: "Update parents for children of the new left child".
NewRootReparent(s5, left_child_page_num) ==
    IF get_node_type(Page(s5, left_child_page_num)) = INTERNAL
    THEN ReparentRight(
             ReparentLoop(s5, left_child_page_num, 0,
                          internal_node_num_keys(Page(s5, left_child_page_num))),
             left_child_page_num)
    ELSE s5

\* A create_new_root whose copy of the root keeps is_root.
NewRootCopy_KeepFlag(s3, left_child_page_num, right_child_page_num) ==
    LET root_page_num == 0
        s4 == IF get_node_type(Page(s3, root_page_num)) = INTERNAL
              THEN initialize_internal_at(initialize_internal_at(s3, right_child_page_num),
                                          left_child_page_num)
              ELSE s3
        s5 == Put(s4, left_child_page_num, Page(s4, root_page_num))
    IN NewRootInit(NewRootReparent(s5, left_child_page_num),
                   left_child_page_num, right_child_page_num)

\* create_new_root from the initialisation of the two children on, with
\* root, right child and left child fetched.
NewRootCopy(s3, left_child_page_num, right_child_page_num) ==
    LET root_page_num == 0
        s4 == IF get_node_type(Page(s3, root_page_num)) = INTERNAL
              THEN initialize_internal_at(initialize_internal_at(s3, right_child_page_num),
                                          left_child_page_num)
              ELSE s3
        \* left_child[:] = root[:], then is_root cleared
        s5 == Put(s4, left_child_page_num, set_node_root(Page(s4, root_page_num), FALSE))
    IN NewRootInit(NewRootReparent(s5, left_child_page_num),
                   left_child_page_num, right_child_page_num)

\* create_new_root after root and right child are fetched.
NewRootFetched(s2, right_child_page_num) ==
    NewRootCopy(get_page(s2, get_unused_page_num(s2)), get_unused_page_num(s2),
                right_child_page_num)

create_new_root(s, right_child_page_num) ==
    NewRootFetched(get_page(get_page(s, 0), right_child_page_num), right_child_page_num)

\* ------------------------------------------------------- internal insert
RECURSIVE InternalShiftLoop(_, _, _)
\* internal_node_insert: for i in range(original_num_keys, index, -1),
\* cell i := cell i - 1.
InternalShiftLoop(node, i, index) ==
    IF i <= index THEN node
    ELSE InternalShiftLoop([node EXCEPT !.icells[i] = node.icells[i - 1]], i - 1, index)

RECURSIVE internal_node_insert(_, _, _, _)
RECURSIVE internal_node_split_and_insert(_, _, _, _)
RECURSIVE MoveUpperLoop(_, _, _, _, _, _)

\* An internal_node_insert that makes no room for the new cell.
InsertCell_NoRoom(right_max, parent_page_num, child_page_num, child_max_key, index, original_num_keys, right_child_page_num) ==
    LET s5 == right_max.store
        parent == Page(s5, parent_page_num)
    IN IF s5.fatal THEN s5
       ELSE IF child_max_key > right_max.key
       THEN LET p1 == set_internal_node_child(parent, original_num_keys,
                                              right_child_page_num)
                p2 == set_internal_node_key(p1, original_num_keys, right_max.key)
            IN Put(s5, parent_page_num, [p2 EXCEPT !.link = child_page_num])
       ELSE LET p2 == set_internal_node_child(parent, index, child_page_num)
            IN Put(s5, parent_page_num, set_internal_node_key(p2, index, child_max_key))

\* internal_node_insert, its last branch: right_max is
\* get_node_max_key(right_child) with the store after it.
InsertCell(right_max, parent_page_num, child_page_num, child_max_key, index, original_num_keys, right_child_page_num) ==
    LET s5 == right_max.store
        parent == Page(s5, parent_page_num)
    IN IF s5.fatal THEN s5
       ELSE IF child_max_key > right_max.key
       THEN \* replace right child
            LET p1 == set_internal_node_child(parent, original_num_keys,
                                              right_child_page_num)
                p2 == set_internal_node_key(p1, original_num_keys, right_max.key)
            IN Put(s5, parent_page_num, [p2 EXCEPT !.link = child_page_num])
       ELSE \* make room for the new cell
            LET p1 == InternalShiftLoop(parent, original_num_keys, index)
                p2 == set_internal_node_child(p1, index, child_page_num)
            IN Put(s5, parent_page_num, set_internal_node_key(p2, index, child_max_key))

\* internal_node_insert after parent and child are fetched: child_max is
\* get_node_max_key(child) with the store after it.
InsertWithMax(child_max, parent_page_num, child_page_num, fuel) ==
    LET s2 == child_max.store
        parent == Page(s2, parent_page_num)
        index == internal_node_find_child(parent, child_max.key)
        original_num_keys == internal_node_num_keys(parent)
        right_child_page_num == internal_node_right_child(parent)
    IN IF s2.fatal THEN s2
       ELSE IF original_num_keys >= INTERNAL_NODE_MAX_KEYS
       THEN IF fuel = 0 THEN [s2 EXCEPT !.fatal = TRUE]
            ELSE internal_node_split_and_insert(s2, parent_page_num, child_page_num,
                                                fuel - 1)
       ELSE IF right_child_page_num = INVALID_PAGE_NUM
       THEN set_right_child_of(s2, parent_page_num, child_page_num)
       ELSE InsertCell(
                MaxKey(set_num_keys_of(get_page(s2, right_child_page_num),
                                       parent_page_num, original_num_keys + 1),
                       right_child_page_num),
                parent_page_num, child_page_num, child_max.key, index,
                original_num_keys, right_child_page_num)

internal_node_insert(s, parent_page_num, child_page_num, fuel) ==
    InsertWithMax(MaxKey(get_page(get_page(s, parent_page_num), child_page_num),
                         child_page_num),
                  parent_page_num, child_page_num, fuel)

\* internal_node_split_and_insert: the loop that moves the upper half of
\* the cell children of the old node to the new node;
\* [store, old_num_keys] when it is done.
MoveUpperLoop(s, old_page_num, new_page_num, i, old_num_keys, fuel) ==
    IF i <= INTERNAL_NODE_MAX_KEYS \div 2 \/ s.fatal
    THEN [store |-> s, old_num_keys |-> old_num_keys]
    ELSE LET old_node == Page(s, old_page_num)
             cur_page_num == internal_node_child(old_node, i)
             s0 == IF internal_node_child_fatal(old_node, i)
                   THEN [s EXCEPT !.fatal = TRUE] ELSE s
         IN MoveUpperLoop(
                set_num_keys_of(
                    set_parent_of(
                        internal_node_insert(get_page(s0, cur_page_num), new_page_num,
                                             cur_page_num, fuel),
                        cur_page_num, new_page_num),
                    old_page_num, old_num_keys - 1),
                old_page_num, new_page_num, i - 1, old_num_keys - 1, fuel)

\* internal_node_split_and_insert, its last statement:
\* set_node_parent(new_node, node_parent(old_node)).
SplitReparent(s17, old_page_num, new_page_num) ==
    set_parent_of(s17, new_page_num, node_parent(Page(s17, old_page_num)))

\* internal_node_split_and_insert: "if not splitting_root".
SplitCascade(s15, old_page_num, new_page_num, splitting_root, fuel) ==
    IF s15.fatal \/ splitting_root THEN s15
    ELSE SplitReparent(
             get_page(internal_node_insert(s15, node_parent(Page(s15, old_page_num)),
                                           new_page_num, fuel),
                      new_page_num),
             old_page_num, new_page_num)

\* internal_node_split_and_insert: update_internal_node_key(parent, old_max,
\* get_node_max_key(old_node)); new_old_max is that key with the store
\* after it.
SplitUpdate(new_old_max, old_page_num, parent_of_old, new_page_num, old_max_key, splitting_root, fuel) ==
    SplitCascade(update_key_of(new_old_max.store, parent_of_old, old_max_key,
                               new_old_max.key),
                 old_page_num, new_page_num, splitting_root, fuel)

\* An internal_node_split_and_insert that sends the child to the new node
\* whatever its key.
SplitPlace_ToNew(max_after_split, old_page_num, parent_of_old, new_page_num, child_page_num, old_max_key, child_max_key, splitting_root, fuel) ==
    SplitUpdate(
        MaxKey(set_parent_of(internal_node_insert(max_after_split.store, new_page_num,
                                                  child_page_num, fuel),
                             child_page_num, new_page_num),
               old_page_num),
        old_page_num, parent_of_old, new_page_num, old_max_key, splitting_root, fuel)

\* internal_node_split_and_insert: the choice of the destination and the
\* insert of the child into it; max_after_split is
\* get_node_max_key(old_node) with the store after it.
SplitPlace(max_after_split, old_page_num, parent_of_old, new_page_num, child_page_num, old_max_key, child_max_key, splitting_root, fuel) ==
    LET dest_page_num == IF child_max_key < max_after_split.key
                         THEN old_page_num ELSE new_page_num
    IN SplitUpdate(
           MaxKey(set_parent_of(internal_node_insert(max_after_split.store, dest_page_num,
                                                     child_page_num, fuel),
                                child_page_num, dest_page_num),
                  old_page_num),
           old_page_num, parent_of_old, new_page_num, old_max_key, splitting_root, fuel)

\* internal_node_split_and_insert after the loop: the last cell child of
\* the old node becomes its right child.
SplitAfterMove(moved, old_page_num, parent_of_old, new_page_num, child_page_num, old_max_key, child_max_key, splitting_root, fuel) ==
    LET s9 == moved.store
        old9 == Page(s9, old_page_num)
        s9f == IF internal_node_child_fatal(old9, moved.old_num_keys - 1)
               THEN [s9 EXCEPT !.fatal = TRUE] ELSE s9
        s10 == Put(s9f, old_page_num,
                   [old9 EXCEPT !.link = internal_node_child(old9, moved.old_num_keys - 1),
                                !.num = moved.old_num_keys - 1])
    IN SplitPlace(MaxKey(s10, old_page_num), old_page_num, parent_of_old, new_page_num,
                  child_page_num, old_max_key, child_max_key, splitting_root, fuel)

\* internal_node_split_and_insert from old_num_keys on: the right child of
\* the old node goes to the new node, then the upper half of its keys.
SplitMove(s4, old_page_num, parent_of_old, new_page_num, child_page_num, old_max_key, child_max_key, splitting_root, fuel) ==
    LET old_num_keys == internal_node_num_keys(Page(s4, old_page_num))
        cur_page_num == internal_node_right_child(Page(s4, old_page_num))
        \* first put the right child into the new node
        s8 == set_right_child_of(
                  set_parent_of(
                      internal_node_insert(get_page(s4, cur_page_num), new_page_num,
                                           cur_page_num, fuel),
                      cur_page_num, new_page_num),
                  old_page_num, INVALID_PAGE_NUM)
    IN SplitAfterMove(
           MoveUpperLoop(s8, old_page_num, new_page_num, INTERNAL_NODE_MAX_KEYS - 1,
                         old_num_keys, fuel),
           old_page_num, parent_of_old, new_page_num, child_page_num,
           old_max_key, child_max_key, splitting_root, fuel)

\* internal_node_split_and_insert, "if splitting_root" after
\* create_new_root: the old node is now child 0 of the root.
SplitOfRoot(a, new_page_num, child_page_num, old_max_key, child_max_key, fuel) ==
    LET root_page_num == 0
        old_page_num == internal_node_child(Page(a, root_page_num), 0)
    IN SplitMove(get_page(get_page(a, root_page_num), old_page_num), old_page_num,
                 root_page_num, new_page_num, child_page_num, old_max_key,
                 child_max_key, TRUE, fuel)

\* internal_node_split_and_insert from new_page_num on; child_max is
\* get_node_max_key(child) with the store after it.
SplitBranch(child_max, old_max_key, parent_page_num, child_page_num, fuel) ==
    LET s3 == child_max.store
        new_page_num == get_unused_page_num(s3)
        old_node == Page(s3, parent_page_num)
    IN IF is_node_root(old_node)
       THEN SplitOfRoot(create_new_root(s3, new_page_num), new_page_num,
                        child_page_num, old_max_key, child_max.key, fuel)
       ELSE SplitMove(
                initialize_internal_at(
                    get_page(get_page(s3, node_parent(old_node)), new_page_num),
                    new_page_num),
                parent_page_num, node_parent(old_node), new_page_num, child_page_num,
                old_max_key, child_max.key, FALSE, fuel)

\* internal_node_split_and_insert after old_max: old_max is
\* get_node_max_key(old_node) with the store after it.
SplitWithOldMax(old_max, parent_page_num, child_page_num, fuel) ==
    SplitBranch(MaxKey(get_page(old_max.store, child_page_num), child_page_num),
                old_max.key, parent_page_num, child_page_num, fuel)

internal_node_split_and_insert(s, parent_page_num, child_page_num, fuel) ==
    SplitWithOldMax(MaxKey(get_page(s, parent_page_num), parent_page_num),
                    parent_page_num, child_page_num, fuel)

\* ------------------------------------------------------------ leaf insert
\* struct.pack_into('<I', ...) raises for a key above 2^32 - 1.
KeyFits(key) == key >= 0 /\ key <= INVALID_PAGE_NUM

\* str.encode('ascii') raises for a character above 127.
IsAscii(u) == \A i \in DOMAIN u : u[i] < 128

\* A row struct.pack_into and encode accept.
RowFits(key, row) == KeyFits(key) /\ KeyFits(row.id) /\ IsAscii(row.username) /\ IsAscii(row.email)

RECURSIVE LeafSplitLoop(_, _, _, _, _, _)
\* A leaf_node_split_and_insert that sends cell LEAF_NODE_LEFT_SPLIT_COUNT
\* to the old leaf.
LeafSplitLoop_Late(old_node, new_node, i, cell_num, key, value) ==
    IF i < 0 THEN [old |-> old_node, new |-> new_node]
    ELSE LET index_within == i % LEAF_NODE_LEFT_SPLIT_COUNT
             cell == IF i = cell_num THEN [key |-> key, value |-> serialize_row(value)]
                     ELSE IF i > cell_num THEN old_node.lcells[i - 1]
                     ELSE old_node.lcells[i]
         IN IF i > LEAF_NODE_LEFT_SPLIT_COUNT
            THEN LeafSplitLoop(old_node, [new_node EXCEPT !.lcells[index_within] = cell],
                               i - 1, cell_num, key, value)
            ELSE LeafSplitLoop([old_node EXCEPT !.lcells[index_within] = cell], new_node,
                               i - 1, cell_num, key, value)

\* leaf_node_split_and_insert: for i in range(LEAF_NODE_MAX_CELLS, -1, -1);
\* [old, new], the two leaves when the loop is done.
LeafSplitLoop(old_node, new_node, i, cell_num, key, value) ==
    IF i < 0 THEN [old |-> old_node, new |-> new_node]
    ELSE LET to_new == i >= LEAF_NODE_LEFT_SPLIT_COUNT
             index_within == i % LEAF_NODE_LEFT_SPLIT_COUNT
             cell == IF i = cell_num THEN [key |-> key, value |-> serialize_row(value)]
                     ELSE IF i > cell_num THEN old_node.lcells[i - 1]
                     ELSE old_node.lcells[i]
         IN IF to_new
            THEN LeafSplitLoop(old_node, [new_node EXCEPT !.lcells[index_within] = cell],
                               i - 1, cell_num, key, value)
            ELSE LeafSplitLoop([old_node EXCEPT !.lcells[index_within] = cell], new_node,
                               i - 1, cell_num, key, value)

\* leaf_node_split_and_insert, the else branch after
\* new_max = get_node_max_key(old_node): new_max is that key with the store
\* after it.
LeafSplitParent(new_max, parent_page_num, new_page_num, old_max_key) ==
    internal_node_insert(
        update_key_of(get_page(new_max.store, parent_page_num), parent_page_num,
                      old_max_key, new_max.key),
        parent_page_num, new_page_num, MaxDepth)

\* leaf_node_split_and_insert after the cells are distributed.
LeafSplitLink(s4, old_page_num, new_page_num, old_max_key) ==
    IF is_node_root(Page(s4, old_page_num))
    THEN create_new_root(s4, new_page_num)
    ELSE LeafSplitParent(MaxKey(s4, old_page_num), node_parent(Page(s4, old_page_num)),
                         new_page_num, old_max_key)

\* leaf_node_split_and_insert after old_max: old_max is
\* get_node_max_key(old_node) with the store after it.
LeafSplitCells(old_max, cursor, key, value) ==
    LET s2 == old_max.store
        new_page_num == get_unused_page_num(s2)
        s3 == get_page(s2, new_page_num)
        old0 == Page(s3, cursor.page_num)
        new0 == [initialize_leaf_node(Page(s3, new_page_num))
                    EXCEPT !.parent = node_parent(old0),
                           !.link = leaf_node_next_leaf(old0)]
        old1 == [old0 EXCEPT !.link = new_page_num]
        split == LeafSplitLoop(old1, new0, LEAF_NODE_MAX_CELLS, cursor.cell_num, key, value)
    IN IF ~RowFits(key, value) THEN [s3 EXCEPT !.fatal = TRUE]
       ELSE LeafSplitLink(
                Put(Put(s3, cursor.page_num,
                        [split.old EXCEPT !.num = LEAF_NODE_LEFT_SPLIT_COUNT]),
                    new_page_num, [split.new EXCEPT !.num = LEAF_NODE_RIGHT_SPLIT_COUNT]),
                cursor.page_num, new_page_num, old_max.key)

leaf_node_split_and_insert(s, cursor, key, value) ==
    LeafSplitCells(MaxKey(get_page(s, cursor.page_num), cursor.page_num),
                   cursor, key, value)

\* A leaf_node_insert that does not shift the cells at and after the cursor.
LeafShiftLoop_NoShift(node, i, cell_num) == node

RECURSIVE LeafShiftLoop(_, _, _)
\* A leaf_node_insert that shifts with the cell at the cursor as the source
\* of every copy.
LeafShiftLoop_Smear(node, i, cell_num) ==
    IF i <= cell_num THEN node
    ELSE LeafShiftLoop([node EXCEPT !.lcells[i] = node.lcells[cell_num]], i - 1, cell_num)

\* leaf_node_insert: for i in range(num_cells, cursor.cell_num, -1),
\* cell i := cell i - 1.
LeafShiftLoop(node, i, cell_num) ==
    IF i <= cell_num THEN node
    ELSE LeafShiftLoop([node EXCEPT !.lcells[i] = node.lcells[i - 1]], i - 1, cell_num)

\* A leaf_node_insert that never splits: it counts the new cell in whatever
\* the leaf holds.
LeafInsertFetched_NoSplit(s1, cursor, key, value) ==
    LET node == Page(s1, cursor.page_num)
        num_cells == leaf_node_num_cells(node)
        shifted == IF cursor.cell_num < num_cells /\ num_cells < LEAF_NODE_MAX_CELLS
                   THEN LeafShiftLoop(node, num_cells, cursor.cell_num)
                   ELSE node
    IN Put(s1, cursor.page_num,
           [shifted EXCEPT !.num = num_cells + 1,
                           !.lcells[cursor.cell_num % LEAF_NODE_MAX_CELLS] =
                               [key |-> key, value |-> serialize_row(value)]])

\* leaf_node_insert after the page of the cursor is fetched.
LeafInsertFetched(s1, cursor, key, value) ==
    LET node == Page(s1, cursor.page_num)
        num_cells == leaf_node_num_cells(node)
    IN IF num_cells >= LEAF_NODE_MAX_CELLS
       THEN leaf_node_split_and_insert(s1, cursor, key, value)
       ELSE IF ~RowFits(key, value) THEN [s1 EXCEPT !.fatal = TRUE]
       ELSE LET shifted == IF cursor.cell_num < num_cells
                           THEN LeafShiftLoop(node, num_cells, cursor.cell_num)
                           ELSE node
            IN Put(s1, cursor.page_num,
                   [shifted EXCEPT !.num = num_cells + 1,
                                   !.lcells[cursor.cell_num] =
                                       [key |-> key, value |-> serialize_row(value)]])

leaf_node_insert(s, cursor, key, value) ==
    LeafInsertFetched(get_page(s, cursor.page_num), cursor, key, value)

\* ---------------------------------------------------------------- cursor
\* table_start: the cursor of table_find(table, 0), end_of_table set when
\* the leaf it lands on holds no cell.
StartCursor(cursor) ==
    [cursor EXCEPT !.end_of_table =
        (leaf_node_num_cells(Page(cursor.store, cursor.page_num)) = 0)]

\* A table_start that looks for key 1.
table_start_FromOne(s) == StartCursor(table_find(s, 1))

table_start(s) == StartCursor(table_find(s, 0))

\* A cursor_advance that ends the table at the end of every leaf.
cursor_advance_OneLeaf(cursor) ==
    LET node == Page(cursor.store, cursor.page_num)
        cell_num == cursor.cell_num + 1
    IN IF cell_num >= leaf_node_num_cells(node)
       THEN [cursor EXCEPT !.cell_num = cell_num, !.end_of_table = TRUE]
       ELSE [cursor EXCEPT !.cell_num = cell_num]

\* cursor_advance: the cursor after the call (its store field unchanged:
\* the page it reads is the one the scan fetched before).
cursor_advance(cursor) ==
    LET node == Page(cursor.store, cursor.page_num)
        cell_num == cursor.cell_num + 1
    IN IF cell_num >= leaf_node_num_cells(node)
       THEN LET next_page == leaf_node_next_leaf(node)
            IN IF next_page = 0
               THEN [cursor EXCEPT !.cell_num = cell_num, !.end_of_table = TRUE]
               ELSE [cursor EXCEPT !.page_num = next_page, !.cell_num = 0]
       ELSE [cursor EXCEPT !.cell_num = cell_num]

RECURSIVE SelectLoop(_, _, _, _, _)
\* execute_select: the while loop, taken one leaf at a time.  With the
\* cursor at (page_num, cell_num) the loop emits the cell under the cursor
\* and, cursor_advance stepping through the leaf, the cells after it up to
\* num_cells - 1; cursor_advance then moves to cell 0 of next_leaf, or ends
\* the table when next_leaf is 0.  [rows, store, done]: the rows printed,
\* the store after the fetches and whether the loop has ended (it is cut
\* after `fuel` leaves, more than a store of this size can hold).
SelectLoop(s, page_num, cell_num, rows, fuel) ==
    IF fuel = 0 THEN [rows |-> rows, store |-> s, done |-> FALSE]
    ELSE LET s1 == get_page(s, page_num)
             node == Page(s1, page_num)
             num_cells == leaf_node_num_cells(node)
             top == IF num_cells > cell_num THEN num_cells - 1 ELSE cell_num
             emitted == [i \in 1 .. (top - cell_num + 1) |->
                            deserialize_row(node.lcells[cell_num + i - 1].value)]
             next_page == leaf_node_next_leaf(node)
         IN IF s1.fatal THEN [rows |-> rows, store |-> s1, done |-> TRUE]
            ELSE IF next_page = 0
            THEN [rows |-> rows \o emitted, store |-> s1, done |-> TRUE]
            ELSE SelectLoop(s1, next_page, 0, rows \o emitted, fuel - 1)

\* execute_select from the cursor table_start returns.
SelectFrom(cursor) ==
    IF cursor.end_of_table \/ cursor.store.fatal
    THEN [rows |-> <<>>, store |-> cursor.store, done |-> TRUE]
    ELSE SelectLoop(cursor.store, cursor.page_num, cursor.cell_num, <<>>,
                    cursor.store.num_pages + 1)

execute_select(s) == SelectFrom(table_start(s))

\* -------------------------------------------------------------- executor
\* ExecuteResult
EXECUTE_SUCCESS == "SUCCESS"
DUPLICATE_KEY == "DUPLICATE_KEY"

\* execute_insert from the cursor table_find returns.
InsertAt(cursor, row) ==
    LET key == row.id
        s1 == get_page(cursor.store, cursor.page_num)
        node == Page(s1, cursor.page_num)
        num_cells == leaf_node_num_cells(node)
    IN IF s1.fatal THEN [result |-> EXECUTE_SUCCESS, store |-> s1]
       ELSE IF cursor.cell_num < num_cells /\ leaf_node_key(node, cursor.cell_num) = key
       THEN [result |-> DUPLICATE_KEY, store |-> s1]
       ELSE [result |-> EXECUTE_SUCCESS, store |-> leaf_node_insert(s1, cursor, key, row)]

\* execute_insert: [result, store].
execute_insert(s, row) == InsertAt(table_find(s, row.id), row)

\* PrepareResult
PREPARE_SUCCESS == "SUCCESS"
NEGATIVE_ID == "NEGATIVE_ID"
STRING_TOO_LONG == "STRING_TOO_LONG"

\* A prepare_statement that refuses a username of COLUMN_USERNAME_SIZE
\* characters.
prepare_statement_Strict(id, username, email) ==
    IF id < 0 THEN NEGATIVE_ID
    ELSE IF Len(username) >= COLUMN_USERNAME_SIZE THEN STRING_TOO_LONG
    ELSE IF Len(email) > COLUMN_EMAIL_SIZE THEN STRING_TOO_LONG
    ELSE PREPARE_SUCCESS

\* prepare_statement on an insert line of four tokens whose id is an
\* integer.
prepare_statement(id, username, email) ==
    IF id < 0 THEN NEGATIVE_ID
    ELSE IF Len(username) > COLUMN_USERNAME_SIZE THEN STRING_TOO_LONG
    ELSE IF Len(email) > COLUMN_EMAIL_SIZE THEN STRING_TOO_LONG
    ELSE PREPARE_SUCCESS

SYNTAX_ERROR == "SYNTAX_ERROR"
UNRECOGNIZED_STATEMENT == "UNRECOGNIZED_STATEMENT"

\* MetaCommandResult
META_SUCCESS == "SUCCESS"
UNRECOGNIZED_COMMAND == "UNRECOGNIZED_COMMAND"

\* An input line is the sequence of its tokens (user_input.split()), a token
\* the sequence of its character codes; the lines of the model do not start
\* with white space, so user_input.startswith(p) looks at the first token.
StartsWith(parts, prefix) ==
    /\ parts # <<>>
    /\ Len(parts[1]) >= Len(prefix)
    /\ SubSeq(parts[1], 1, Len(prefix)) = prefix

IsDigits(token) == token # <<>> /\ \A i \in DOMAIN token : token[i] \in 48 .. 57

\* int(token) does not raise ValueError: an optional sign, then decimal
\* digits.
IntParses(token) ==
    IF token # <<>> /\ token[1] \in {43, 45} THEN IsDigits(Tail(token)) ELSE IsDigits(token)

RECURSIVE DigitsValue(_, _)
DigitsValue(token, acc) ==
    IF token = <<>> THEN acc ELSE DigitsValue(Tail(token), acc * 10 + (Head(token) - 48))

\* int(token) of a token that parses.
IntValue(token) ==
    IF token[1] = 45 THEN 0 - DigitsValue(Tail(token), 0)
    ELSE IF token[1] = 43 THEN DigitsValue(Tail(token), 0)
    ELSE DigitsValue(token, 0)

\* prepare_statement on any input line.
prepare_user_input(parts) ==
    IF StartsWith(parts, <<105, 110, 115, 101, 114, 116>>)
    THEN IF Len(parts) # 4 THEN SYNTAX_ERROR
         ELSE IF ~IntParses(parts[2]) THEN SYNTAX_ERROR
         ELSE prepare_statement(IntValue(parts[2]), parts[3], parts[4])
    ELSE IF StartsWith(parts, <<115, 101, 108, 101, 99, 116>>) THEN PREPARE_SUCCESS
    ELSE UNRECOGNIZED_STATEMENT

\* do_meta_command: what it returns (.exit, .btree, .constants are
\* recognised; .exit does not return).
do_meta_command(parts) ==
    IF parts \in {<<<<46, 101, 120, 105, 116>>>>, <<<<46, 98, 116, 114, 101, 101>>>>,
                  <<<<46, 99, 111, 110, 115, 116, 97, 110, 116, 115>>>>}
    THEN META_SUCCESS
    ELSE UNRECOGNIZED_COMMAND

\* ------------------------------------------------------------ debugging
RECURSIVE print_tree(_, _, _)
RECURSIVE PrintChildren(_, _, _, _)

\* print_tree on an internal node with keys: the calls on its cell
\* children, then the call on its right child.
PrintChildren(s, page_num, i, fuel) ==
    IF s.fatal \/ i > internal_node_num_keys(Page(s, page_num)) THEN s
    ELSE PrintChildren(
             print_tree(s, internal_node_child(Page(s, page_num), i), fuel - 1),
             page_num, i + 1, fuel)

\* print_tree after the page is fetched.
PrintFetched(s1, page_num, fuel) ==
    IF s1.fatal \/ get_node_type(Page(s1, page_num)) = LEAF THEN s1
    ELSE IF internal_node_num_keys(Page(s1, page_num)) = 0 THEN s1
    ELSE IF fuel = 0 THEN [s1 EXCEPT !.fatal = TRUE]
    ELSE PrintChildren(s1, page_num, 0, fuel)

\* print_tree: the store after the fetches of the walk (a walk deeper than
\* `fuel` levels, which no tree of this size has, ends the process).
print_tree(s, page_num, fuel) == PrintFetched(get_page(s, page_num), page_num, fuel)

\* ------------------------------------------------------------- the table
EmptyCache == [n \in {} |-> ZeroPage]

\* A Table.__init__ that never initialises page 0.
TableOpen_NoRoot(f) ==
    [cache |-> EmptyCache, num_pages |-> Len(f), file |-> f, fatal |-> FALSE]

\* A Table.__init__ that initialises page 0 whatever the file holds.
TableOpen_Always(f) ==
    LET s0 == [cache |-> EmptyCache, num_pages |-> Len(f), file |-> f, fatal |-> FALSE]
        s1 == get_page(s0, 0)
    IN Put(s1, 0, set_node_root(initialize_leaf_node(Page(s1, 0)), TRUE))

\* Pager.__init__ and Table.__init__ on a file of whole pages: the store of
\* the new session.
TableOpen(f) ==
    LET s0 == [cache |-> EmptyCache, num_pages |-> Len(f), file |-> f, fatal |-> FALSE]
    IN IF s0.num_pages = 0
       THEN LET s1 == get_page(s0, 0)
            IN Put(s1, 0, set_node_root(initialize_leaf_node(Page(s1, 0)), TRUE))
       ELSE s0

\* Pager.flush(page_num): fatal for a page that is not cached, else the page
\* is written at offset page_num * PAGE_SIZE; a write past the end of the
\* file leaves zero bytes in between.
flush(s, page_num) ==
    IF page_num \notin DOMAIN s.cache
    THEN [s EXCEPT !.fatal = TRUE]
    ELSE LET n == IF page_num + 1 > Len(s.file) THEN page_num + 1 ELSE Len(s.file)
         IN [s EXCEPT !.file = [i \in 1 .. n |->
                                   IF i = page_num + 1 THEN s.cache[page_num]
                                   ELSE IF i <= Len(s.file) THEN s.file[i]
                                   ELSE ZeroPage]]

\* del self.pager.pages[i]
DelPage(s, i) ==
    IF s.fatal THEN s
    ELSE [s EXCEPT !.cache = [n \in (DOMAIN s.cache) \ {i} |-> s.cache[n]]]

\* A loop of Table.close that flushes every page below num_pages, cached or
\* not.
RECURSIVE CloseLoop_All(_, _)
CloseLoop_All(s, i) ==
    IF i >= s.num_pages \/ s.fatal THEN s
    ELSE CloseLoop_All(DelPage(flush(s, i), i), i + 1)

\* The loop of Table.close from page i on: a cached page is flushed and
\* dropped from the cache.
RECURSIVE CloseLoop(_, _)
CloseLoop(s, i) ==
    IF i >= s.num_pages \/ s.fatal THEN s
    ELSE CloseLoop(IF i \in DOMAIN s.cache THEN DelPage(flush(s, i), i) ELSE s, i + 1)

\* A Table.close that does not flush page 0.
TableClose_SkipRoot(s) ==
    LET flushed == {i \in 1 .. (s.num_pages - 1) : i \in DOMAIN s.cache}
        top == IF flushed = {} THEN 0
               ELSE (CHOOSE i \in flushed : \A j \in flushed : j <= i) + 1
        n == IF top > Len(s.file) THEN top ELSE Len(s.file)
    IN [i \in 1 .. n |->
          IF (i - 1) \in flushed THEN s.cache[i - 1]
          ELSE IF i <= Len(s.file) THEN s.file[i]
          ELSE ZeroPage]

\* Table.close: the file after every cached page below num_pages has been
\* flushed to offset page number * PAGE_SIZE (a write past the end of the
\* file leaves zero bytes in between).
TableClose(s) ==
    LET flushed == {i \in 0 .. (s.num_pages - 1) : i \in DOMAIN s.cache}
        top == IF flushed = {} THEN 0
               ELSE (CHOOSE i \in flushed : \A j \in flushed : j <= i) + 1
        n == IF top > Len(s.file) THEN top ELSE Len(s.file)
    IN [i \in 1 .. n |->
          IF (i - 1) \in flushed THEN s.cache[i - 1]
          ELSE IF i <= Len(s.file) THEN s.file[i]
          ELSE ZeroPage]

\* ------------------------------------------------------------- workload
BurstLen == LEAF_NODE_LEFT_SPLIT_COUNT
BaseLoad == BaseLeaves * LEAF_NODE_LEFT_SPLIT_COUNT
MaxLoad == BaseLoad + MaxBursts * BurstLen
ProbeIds == {KeyGap, (BurstAt + 1) * KeyGap}

\* The strings of the row supplied with id k: neighbouring ids get different
\* strings, and some usernames end with a NUL character.
NameOf(k) ==
    <<97 + (k % 7)>> \o (IF ((k \div KeyGap) + k) % 4 = 1 THEN <<NUL>> ELSE <<>>)
MailOf(k) == <<97 + (((k \div KeyGap) + k) % 5), 64>>
RowOf(k) == Row(k, NameOf(k), MailOf(k))
\* The row of a repeated id.
ProbeRow(k) == Row(k, <<112>>, <<113, 64>>)

\* Rows prepare_statement rejects: a negative id, a username of more than
\* COLUMN_USERNAME_SIZE characters.
RejectedRows ==
    {Row(-1, <<112>>, <<113, 64>>),
     Row(KeyGap, [i \in 1 .. (COLUMN_USERNAME_SIZE + 1) |-> 112], <<113, 64>>)}

\* Lines the main loop answers with an error: ".foo", ".exit now",
\* "update 1 p q", the empty line, "insert 1 p", "insert 1 p q r",
\* "insert x1 p q", "insert -7 p q", "insert +7 <33 characters> q".
BadLines ==
    {<< <<46, 102, 111, 111>> >>,
     << <<46, 101, 120, 105, 116>>, <<110, 111, 119>> >>,
     << <<117, 112, 100, 97, 116, 101>>, <<49>>, <<112>>, <<113>> >>,
     << >>,
     << <<105, 110, 115, 101, 114, 116>>, <<49>>, <<112>> >>,
     << <<105, 110, 115, 101, 114, 116>>, <<49>>, <<112>>, <<113>>, <<114>> >>,
     << <<105, 110, 115, 101, 114, 116>>, <<120, 49>>, <<112>>, <<113>> >>,
     << <<105, 110, 115, 101, 114, 116>>, <<45, 55>>, <<112>>, <<113>> >>,
     << <<105, 110, 115, 101, 114, 116>>, <<43, 55>>,
        [i \in 1 .. (COLUMN_USERNAME_SIZE + 1) |-> 112], <<113>> >>}

\* ------------------------------------------------------------------ state
VARIABLES
    cache,      \* Pager.pages of the running session: page number -> page
    num_pages,  \* Pager.num_pages
    file,       \* the pages of the database file, page n at index n + 1
    session,    \* "open", "closed" (left by .exit) or "dead" (end of input,
                \* fatal exit, uncaught exception)
    sessions,   \* the number of sessions opened on the file so far
    load,       \* the number of workload rows supplied so far
    burst,      \* [dir, up, down]: the direction of the running burst and
                \* the ids used so far above and below BurstAt * KeyGap
    later,      \* the workload rows supplied by the sessions after the first
    accepted,   \* the set of rows execute_insert has answered SUCCESS for,
                \* as far as they are in the store of the session
    durable,    \* `accepted` as it was at the last .exit
    last        \* the last command: [op, key, result]

vars == <<cache, num_pages, file, session, sessions, load, burst, later,
          accepted, durable, last>>

\* The store of the running session.
St == [cache |-> cache, num_pages |-> num_pages, file |-> file, fatal |-> FALSE]

Ids(rows) == {r.id : r \in rows}

Init ==
    /\ file = <<>>
    /\ cache = TableOpen(<<>>).cache
    /\ num_pages = TableOpen(<<>>).num_pages
    /\ session = "open"
    /\ sessions = 1
    /\ load = 0
    /\ burst = [dir |-> 1, up |-> 0, down |-> 0]
    /\ later = 0
    /\ accepted = {}
    /\ durable = {}
    /\ last = [op |-> "open", key |-> 0, result |-> "SUCCESS"]

\* An end of the process that flushes the pages like Table.close.
Die_Flush ==
    /\ session' = "dead"
    /\ cache' = EmptyCache
    /\ num_pages' = 0
    /\ accepted' = durable
    /\ file' = TableClose(St)
    /\ UNCHANGED durable

\* The process ends without Table.close: nothing of the session is left.
Die ==
    /\ session' = "dead"
    /\ cache' = EmptyCache
    /\ num_pages' = 0
    /\ accepted' = durable
    /\ UNCHANGED <<file, durable>>

\* The main loop after an insert line: prepared is what prepare_statement
\* returned and r what execute_insert returns.
InsertReport(row, prepared, r) ==
    IF prepared # PREPARE_SUCCESS
    THEN /\ last' = [op |-> "insert", key |-> row.id, result |-> prepared]
         /\ UNCHANGED <<cache, num_pages, file, session, accepted, durable>>
    ELSE IF r.store.fatal
    THEN /\ last' = [op |-> "insert", key |-> row.id, result |-> "FATAL"]
         /\ Die
    ELSE /\ last' = [op |-> "insert", key |-> row.id, result |-> r.result]
         /\ cache' = r.store.cache
         /\ num_pages' = r.store.num_pages
         /\ accepted' = IF r.result = EXECUTE_SUCCESS THEN accepted \cup {row}
                        ELSE accepted
         /\ UNCHANGED <<file, session, durable>>

\* One insert line of the main loop: prepare_statement, execute_insert and
\* the report of the result.
InsertLine(row) ==
    InsertReport(row, prepare_statement(row.id, row.username, row.email),
                 execute_insert(St, row))

\* The ids the workload may supply next, each with the burst state after it.
NextIds ==
    IF load < Shuffle
    THEN {[id |-> i * KeyGap, burst |-> burst] : i \in {j \in 1 .. Shuffle : j * KeyGap \notin Ids(accepted)}}
    ELSE IF load < BaseLoad
    THEN {[id |-> (load + 1) * KeyGap, burst |-> burst]}
    ELSE LET dirs == IF (load - BaseLoad) % BurstLen = 0 THEN {1, -1} ELSE {burst.dir}
         IN {IF d = 1
             THEN [id |-> BurstAt * KeyGap + burst.up + 1,
                   burst |-> [burst EXCEPT !.dir = d, !.up = @ + 1]]
             ELSE [id |-> BurstAt * KeyGap - burst.down - 1,
                   burst |-> [burst EXCEPT !.dir = d, !.down = @ + 1]] : d \in dirs}

\* insert <id> <username> <email>, the next row of the workload
InsertNext ==
    /\ session = "open"
    /\ load < MaxLoad
    /\ sessions = 1 \/ later < MaxLater
    /\ \E n \in NextIds :
          /\ InsertLine(RowOf(n.id))
          /\ burst' = n.burst
    /\ load' = load + 1
    /\ later' = IF sessions = 1 THEN later ELSE later + 1
    /\ UNCHANGED sessions

\* insert of an id supplied before
Reinsert ==
    /\ session = "open"
    /\ \E k \in ProbeIds \cap Ids(accepted) : InsertLine(ProbeRow(k))
    /\ UNCHANGED <<sessions, load, burst, later>>

\* The main loop after a select line: r is what execute_select returns.
SelectReport(r) ==
    IF r.store.fatal \/ ~r.done
    THEN /\ last' = [op |-> "select", key |-> 0, result |-> "FATAL"]
         /\ Die
    ELSE /\ last' = [op |-> "select", key |-> 0, result |-> EXECUTE_SUCCESS]
         /\ cache' = r.store.cache
         /\ num_pages' = r.store.num_pages
         /\ UNCHANGED <<file, session, accepted, durable>>

\* select
Select ==
    /\ session = "open"
    /\ SelectReport(execute_select(St))
    /\ UNCHANGED <<sessions, load, burst, later>>

\* The input of the session may end here.
SessionMayEnd == sessions > 1 \/ load % SessionEvery = 0

\* The main loop after .btree: s is the store print_tree leaves.
BtreeReport(s) ==
    IF s.fatal
    THEN /\ last' = [op |-> "btree", key |-> 0, result |-> "FATAL"]
         /\ Die
    ELSE /\ last' = [op |-> "btree", key |-> 0, result |-> "SUCCESS"]
         /\ cache' = s.cache
         /\ num_pages' = s.num_pages
         /\ UNCHANGED <<file, session, accepted, durable>>

\* .btree
Btree ==
    /\ session = "open"
    /\ BtreeReport(print_tree(St, 0, MaxDepth))
    /\ UNCHANGED <<sessions, load, burst, later>>

\* an insert line that prepare_statement rejects
Rejected ==
    /\ session = "open"
    /\ \E row \in RejectedRows : InsertLine(row)
    /\ UNCHANGED <<sessions, load, burst, later>>

\* A main loop that fetches the root page before it reports an error.
LineReport_FetchRoot(parts, result) ==
    /\ last' = [op |-> "line", key |-> 0, result |-> result]
    /\ cache' = get_page(St, 0).cache
    /\ UNCHANGED <<num_pages, file, session, accepted, durable>>

\* The main loop on an input line: result is what do_meta_command (a line
\* that starts with ".") or prepare_statement returns.
LineReport(parts, result) ==
    IF result \notin {META_SUCCESS, PREPARE_SUCCESS}
    THEN /\ last' = [op |-> "line", key |-> 0, result |-> result]
         /\ UNCHANGED <<cache, num_pages, file, session, accepted, durable>>
    ELSE IF StartsWith(parts, <<105, 110, 115, 101, 114, 116>>)
    THEN InsertLine(Row(IntValue(parts[2]), parts[3], parts[4]))
    ELSE /\ StartsWith(parts, <<115, 101, 108, 101, 99, 116>>)
         /\ SelectReport(execute_select(St))

\* Error lines come where the input of a session may end.
BadLineDue == load % SessionEvery = 0

\* a line that the main loop answers with an error message
BadLine ==
    /\ session = "open"
    /\ BadLineDue
    /\ \E parts \in BadLines :
          LineReport(parts, IF StartsWith(parts, <<46>>) THEN do_meta_command(parts)
                            ELSE prepare_user_input(parts))
    /\ UNCHANGED <<sessions, load, burst, later>>

\* .exit: Table.close, then the process ends
Exit ==
    /\ session = "open"
    /\ SessionMayEnd
    /\ file' = TableClose(St)
    /\ cache' = CloseLoop(St, 0).cache
    /\ session' = "closed"
    /\ durable' = accepted
    /\ last' = [op |-> "exit", key |-> 0, result |-> "SUCCESS"]
    /\ UNCHANGED <<num_pages, sessions, load, burst, later, accepted>>

\* end of input: the process ends without Table.close
Eof ==
    /\ session = "open"
    /\ SessionMayEnd
    /\ Die
    /\ last' = [op |-> "eof", key |-> 0, result |-> "SUCCESS"]
    /\ UNCHANGED <<sessions, load, burst, later>>

\* the program is started again on the same file
Open ==
    /\ session \in {"closed", "dead"}
    /\ sessions < MaxSessions
    /\ cache' = TableOpen(file).cache
    /\ num_pages' = TableOpen(file).num_pages
    /\ session' = "open"
    /\ sessions' = sessions + 1
    /\ last' = [op |-> "open", key |-> 0, result |-> "SUCCESS"]
    /\ UNCHANGED <<file, load, burst, later, accepted, durable>>

Next ==
    \/ InsertNext
    \/ Reinsert
    \/ Select
    \/ Btree
    \/ Rejected
    \/ BadLine
    \/ Exit
    \/ Eof
    \/ Open

Spec == Init /\ [][Next]_vars

\* ---------------------------------------------------- the pager by itself
\* The main loop after a call of Pager.get_page(n) that some operation
\* makes: s is the pager after the call.
FetchReport(n, s) ==
    IF s.fatal
    THEN /\ last' = [op |-> "get_page", key |-> n, result |-> "FATAL"]
         /\ Die
    ELSE /\ last' = [op |-> "get_page", key |-> n, result |-> "SUCCESS"]
         /\ cache' = s.cache
         /\ num_pages' = s.num_pages
         /\ UNCHANGED <<file, session, accepted, durable>>

\* The page numbers a call may ask for: a page of the store, the page
\* get_unused_page_num names (as every split asks for), a number past
\* TABLE_MAX_PAGES.
FetchPages ==
    ((0 .. FetchLow) \cap (0 .. (num_pages - 1))) \cup {get_unused_page_num(St)}
        \cup ((TABLE_MAX_PAGES + 1) .. (TABLE_MAX_PAGES + FetchOver))

\* Pager.get_page(n)
Fetch ==
    /\ session = "open"
    /\ \E n \in FetchPages : FetchReport(n, get_page(St, n))
    /\ UNCHANGED <<sessions, load, burst, later>>

PagerNext == Fetch

\* The pager of one session on a new file, page after page.
PagerSpec == Init /\ [][PagerNext]_vars

\* ------------------------------------------- prepare_statement by itself
\* The id tokens of the insert lines: "-7", "-1", "-0", "0", "1", "+7", "42".
IdTokens ==
    {<<45, 55>>, <<45, 49>>, <<45, 48>>, <<48>>, <<49>>, <<43, 55>>, <<52, 50>>}

\* A token of n characters.
TokenOfLen(n) == [i \in 1 .. n |-> 112]

\* The insert lines of four tokens: an id token, a username and an email
\* of a length near the size of the column.
InsertLines ==
    {<< <<105, 110, 115, 101, 114, 116>>, id, TokenOfLen(u), TokenOfLen(e) >> :
        id \in IdTokens,
        u \in (COLUMN_USERNAME_SIZE - PrepareSlack) .. (COLUMN_USERNAME_SIZE + PrepareSlack),
        e \in (COLUMN_EMAIL_SIZE - PrepareSlack) .. (COLUMN_EMAIL_SIZE + PrepareSlack)}

\* prepare_statement(user_input, statement) on an insert line
Prepare ==
    /\ session = "open"
    /\ \E parts \in InsertLines :
          last' = [op |-> "prepare", key |-> IntValue(parts[2]),
                   result |-> prepare_user_input(parts),
                   username |-> Len(parts[3]), email |-> Len(parts[4])]
    /\ UNCHANGED <<cache, num_pages, file, session, sessions, load, burst, later, accepted, durable>>

PrepareNext == Prepare

\* prepare_statement, line after line.
PrepareSpec == Init /\ [][PrepareNext]_vars

\* ------------------------------------------------ the first split by itself
\* The ids 1 .. LEAF_NODE_MAX_CELLS + 1 that were not supplied yet.
SplitRest == (1 .. (LEAF_NODE_MAX_CELLS + 1)) \ Ids(accepted)

\* insert <id> <username> <email> into a database of fewer than
\* LEAF_NODE_MAX_CELLS + 1 rows
SplitInsert ==
    /\ session = "open"
    /\ \E k \in SplitRest : InsertLine(RowOf(k))
    /\ load' = load + 1
    /\ UNCHANGED <<sessions, burst, later>>

SplitNext == SplitInsert

\* The first LEAF_NODE_MAX_CELLS + 1 inserts into an empty database, the ids
\* 1 .. LEAF_NODE_MAX_CELLS + 1 in every order.
SplitSpec == Init /\ [][SplitNext]_vars

\* ------------------------------------------------- the searches by themselves
RECURSIVE Ascending(_)
\* The numbers of a set as an ascending sequence.
Ascending(S) ==
    IF S = {} THEN <<>>
    ELSE LET m == CHOOSE x \in S : \A y \in S : x <= y
         IN <<m>> \o Ascending(S \ {m})

\* The key sequences of the nodes that are searched: strictly ascending.
InternalKeySeqs ==
    {Ascending({2 * x : x \in S}) :
        S \in {T \in SUBSET (1 .. FindKeys) : Cardinality(T) <= INTERNAL_NODE_MAX_KEYS}}
LeafKeySeqs ==
    {Ascending({2 * x : x \in S}) : S \in SUBSET (1 .. FindKeys)}
        \cup {[i \in 1 .. n |-> 2 * i] : n \in 0 .. LEAF_NODE_MAX_CELLS}
SearchKeys == 0 .. (2 * LEAF_NODE_MAX_CELLS + 2)

RECURSIVE InternalWith(_, _, _)
\* The internal node with the separator keys ks[i], i >= from, written
\* into the cells of node: child i is page i + 1.
InternalWith(node, ks, from) ==
    IF from > Len(ks) THEN node
    ELSE InternalWith(set_internal_node_key(set_internal_node_child(node, from - 1, from), from - 1, ks[from]), ks, from + 1)

\* The leaf with the keys ks, each with the row of the workload.
LeafWith(ks) ==
    [initialize_leaf_node(ZeroPage) EXCEPT
        !.num = Len(ks),
        !.lcells = [i \in LeafSlots |->
                       IF i < Len(ks) THEN [key |-> ks[i + 1], value |-> serialize_row(RowOf(ks[i + 1]))]
                       ELSE ZeroLeafCell]]

\* internal_node_find_child(node, key)
FindChild ==
    /\ session = "open"
    /\ last.op = "open"
    /\ \E ks \in InternalKeySeqs, key \in SearchKeys :
          last' = [op |-> "find_child", key |-> key, keys |-> ks,
                   result |-> internal_node_find_child(
                                  InternalWith([initialize_internal_node(ZeroPage) EXCEPT !.num = Len(ks), !.link = Len(ks) + 1], ks, 1), key)]
    /\ UNCHANGED <<cache, num_pages, file, session, sessions, load, burst, later, accepted, durable>>

\* leaf_node_find(table, page_num, key) on the root leaf
LeafFind ==
    /\ session = "open"
    /\ last.op = "open"
    /\ \E ks \in LeafKeySeqs, key \in SearchKeys :
          last' = [op |-> "leaf_find", key |-> key, keys |-> ks,
                   result |-> leaf_node_find(Put(St, 0, LeafWith(ks)), 0, key)]
    /\ UNCHANGED <<cache, num_pages, file, session, sessions, load, burst, later, accepted, durable>>

FindNext == FindChild \/ LeafFind

\* The two binary searches: one call on a node and a key, in a session that
\* has just been opened.
FindSpec == Init /\ [][FindNext]_vars

\* The number of keys of ks that are smaller than key: for ascending ks
\* the index (from 0) of the first key >= key, Len(ks) when there is none.
SmallerKeys(ks, key) == Cardinality({i \in 1 .. Len(ks) : ks[i] < key})

\* ------------------------------------------------------- tree inspection
\* The rows execute_select would print now.
SelectRows == execute_select(St).rows

\* The store of the running session after the step.
StNext == [cache |-> cache', num_pages |-> num_pages', file |-> file', fatal |-> FALSE]

\* The pages [0, num_pages) and the node on page n.
Pages == 0 .. (num_pages - 1)
Node(n) == Page(St, n)

\* The children an internal node lists: its cell children and right_child.
ChildrenOf(node) ==
    {internal_node_child(node, i) : i \in 0 .. internal_node_num_keys(node)}

LeafKeys(node) ==
    {leaf_node_key(node, i) : i \in 0 .. (leaf_node_num_cells(node) - 1)}

RECURSIVE SubtreeKeys(_, _)
\* The keys stored in the leaves below page n (n included).
SubtreeKeys(n, fuel) ==
    IF get_node_type(Node(n)) = LEAF THEN LeafKeys(Node(n))
    ELSE IF fuel = 0 THEN {}
    ELSE UNION {SubtreeKeys(c, fuel - 1) : c \in ChildrenOf(Node(n))}

\* The largest key of a set of keys, -1 for the empty set.
MaxOf(S) == IF S = {} THEN -1 ELSE CHOOSE x \in S : \A y \in S : y <= x
SubtreeMax(n) == MaxOf(SubtreeKeys(n, MaxDepth))

StrictlyAscending(q) == \A i \in 1 .. (Len(q) - 1) : q[i] < q[i + 1]
RowIds(rows) == [i \in 1 .. Len(rows) |-> rows[i].id]
Range(q) == {q[i] : i \in 1 .. Len(q)}

\* A row as it is read back: its strings without their trailing NULs.
Stripped(row) == Row(row.id, RStrip(row.username), RStrip(row.email))

\* The root is an internal node with an internal child: the root has been
\* split as an internal node.
RootWasSplit ==
    /\ get_node_type(Node(0)) = INTERNAL
    /\ get_node_type(Node(internal_node_child(Node(0), 0))) = INTERNAL

RECURSIVE LeavesBelow(_, _)
RECURSIVE LeavesOfChildren(_, _, _)
\* The leaves below page n in left-to-right tree order: the leaves below
\* child 0, child 1, ..., the right child last.
LeavesBelow(n, fuel) ==
    IF get_node_type(Node(n)) = LEAF THEN <<n>>
    ELSE IF fuel = 0 THEN <<>>
    ELSE LeavesOfChildren(Node(n), 0, fuel - 1)

\* The leaves below the children i, i + 1, ... of an internal node.
LeavesOfChildren(node, i, fuel) ==
    IF i > internal_node_num_keys(node) THEN <<>>
    ELSE LeavesBelow(internal_node_child(node, i), fuel) \o LeavesOfChildren(node, i + 1, fuel)

TreeLeaves == LeavesBelow(0, MaxDepth)

RECURSIVE LeafChain(_, _)
\* The pages the next_leaf chain visits from page n on (0 ends the chain).
LeafChain(n, fuel) ==
    IF fuel = 0 THEN <<n>>
    ELSE IF leaf_node_next_leaf(Node(n)) = 0 THEN <<n>>
    ELSE <<n>> \o LeafChain(leaf_node_next_leaf(Node(n)), fuel - 1)

\* A page image no operation of the workload writes.
MarkedPage == [ZeroPage EXCEPT !.parent = TABLE_MAX_PAGES, !.num = LEAF_NODE_MAX_CELLS]

\* The cells of a leaf after (key, value) went in at cell_num: the cells
\* from cell_num to num_cells - 1 one slot to the right.
CellsWith(node, cell_num, key, value) ==
    [i \in LeafSlots |->
        IF i < cell_num THEN node.lcells[i]
        ELSE IF i = cell_num THEN [key |-> key, value |-> value]
        ELSE IF i <= leaf_node_num_cells(node) THEN node.lcells[i - 1]
        ELSE node.lcells[i]]

\* The LEAF_NODE_MAX_CELLS + 1 cells of a full leaf and (key, value) at
\* cell_num, in the order of their slots.
AllCells(node, cell_num, key, value) ==
    [i \in 0 .. LEAF_NODE_MAX_CELLS |->
        IF i < cell_num THEN node.lcells[i]
        ELSE IF i = cell_num THEN [key |-> key, value |-> value]
        ELSE node.lcells[i - 1]]

\* left and right hold the cells of all, in their order: left the first
\* LEAF_NODE_LEFT_SPLIT_COUNT, right the others, and the keys of all ascend.
SplitHolds(all, left, right) ==
    /\ get_node_type(left) = LEAF
    /\ get_node_type(right) = LEAF
    /\ leaf_node_num_cells(left) = LEAF_NODE_LEFT_SPLIT_COUNT
    /\ leaf_node_num_cells(right) = LEAF_NODE_RIGHT_SPLIT_COUNT
    /\ \A i \in 0 .. (LEAF_NODE_LEFT_SPLIT_COUNT - 1) : left.lcells[i] = all[i]
    /\ \A i \in 0 .. (LEAF_NODE_RIGHT_SPLIT_COUNT - 1) :
          right.lcells[i] = all[LEAF_NODE_LEFT_SPLIT_COUNT + i]
    /\ \A i \in 0 .. (LEAF_NODE_MAX_CELLS - 1) : all[i].key < all[i + 1].key

\* The page of the old leaf once leaf_node_split_and_insert is done with
\* the leaf of page n: create_new_root moves a root to child 0 of page 0.
OldLeafAfter(n) ==
    IF is_node_root(Node(n)) THEN internal_node_child(Page(StNext, 0), 0) ELSE n

\* The leaf that holds the key of the last insert.
LastLeaf == Node(table_find(St, last.key).page_num)

\* ------------------------------------------------- create_new_root by itself
\* create_new_root(table, new_page_num) as internal_node_split_and_insert
\* calls it: on a full internal root, with the page number
\* get_unused_page_num gave.
NewRoot ==
    /\ session = "open"
    /\ last.op # "create_new_root"
    /\ get_node_type(Node(0)) = INTERNAL
    /\ internal_node_num_keys(Node(0)) = INTERNAL_NODE_MAX_KEYS
    /\ last' = [op |-> "create_new_root", right |-> get_unused_page_num(St),
                after |-> create_new_root(St, get_unused_page_num(St))]
    /\ UNCHANGED <<cache, num_pages, file, session, sessions, load, burst, later, accepted, durable>>

RootNext == InsertNext \/ NewRoot

\* The inserts of the workload, with create_new_root applied to the full
\* internal roots they build.
RootSpec == Init /\ [][RootNext]_vars

\* What create_new_root(right) leaves of a root that was the node former
\* in a file of pages_before pages: a the store after, left the page of
\* the left child.
NewRootHolds(former, pages_before, a, right, left) ==
    /\ ~a.fatal
    /\ get_node_type(Page(a, 0)) = INTERNAL
    /\ is_node_root(Page(a, 0))
    /\ internal_node_num_keys(Page(a, 0)) = 1
    /\ internal_node_child(Page(a, 0), 0) = left
    /\ internal_node_right_child(Page(a, 0)) = right
    /\ left >= pages_before
    /\ left < a.num_pages
    /\ left # right
    /\ Page(a, left) = set_node_parent(set_node_root(former, FALSE), 0)
    /\ node_parent(Page(a, right)) = 0
    /\ get_node_type(former) = INTERNAL =>
          \A c \in ChildrenOf(former) : node_parent(Page(a, c)) = left

\* The root leaf as leaf_node_split_and_insert hands it to create_new_root:
\* the first LEAF_NODE_LEFT_SPLIT_COUNT cells of all, next_leaf the new leaf.
FormerRootLeaf(node, all, right) ==
    [node EXCEPT !.num = LEAF_NODE_LEFT_SPLIT_COUNT,
                 !.link = right,
                 !.lcells = [i \in LeafSlots |-> IF i < LEAF_NODE_LEFT_SPLIT_COUNT THEN all[i] ELSE @[i]]]

\* ------------------------------------------- internal_node_insert by itself
\* The children of an internal node in every order, and the first ones of
\* every order.
ChildOrders(node) ==
    UNION {{q \in [1 .. k -> ChildrenOf(node)] : \A i, j \in 1 .. k : q[i] = q[j] => i = j} :
              k \in 1 .. Cardinality(ChildrenOf(node))}

RECURSIVE Adopted(_, _, _, _)
\* The store after internal_node_insert(table, new_page_num, q[i]) for the
\* first k page numbers of q.
Adopted(s, new_page_num, q, k) ==
    IF k = 0 THEN s
    ELSE internal_node_insert(Adopted(s, new_page_num, q, k - 1), new_page_num, q[k], MaxDepth)

\* internal_node_insert(table, new_page_num, cur_page_num) as
\* internal_node_split_and_insert calls it: children of an internal node go
\* into a new node, initialize_internal_node just done on it.  The node is
\* the root or the parent of the leaf of the last insert.
Adopt ==
    /\ session = "open"
    /\ last.op = "insert"
    /\ \E n \in {0, node_parent(LastLeaf)} :
          /\ get_node_type(Node(n)) = INTERNAL
          /\ \E q \in ChildOrders(Node(n)) :
                last' = [op |-> "internal_node_insert",
                         parent |-> get_unused_page_num(St),
                         children |-> q,
                         before |-> Adopted(initialize_internal_at(get_page(St, get_unused_page_num(St)),
                                                                   get_unused_page_num(St)),
                                            get_unused_page_num(St), q, Len(q) - 1),
                         after |-> Adopted(initialize_internal_at(get_page(St, get_unused_page_num(St)),
                                                                  get_unused_page_num(St)),
                                           get_unused_page_num(St), q, Len(q))]
    /\ UNCHANGED <<cache, num_pages, file, session, sessions, load, burst, later, accepted, durable>>

AdoptNext == InsertNext \/ Adopt

\* The inserts of the workload, with internal_node_insert applied to the
\* children of the internal nodes they build.
AdoptSpec == Init /\ [][AdoptNext]_vars

\* What internal_node_insert(parent, child) makes of the parent node
\* before: after is the parent node after it, Max(c) the largest key
\* below page c.
InsertHolds(before, after, child, Max(_)) ==
    IF internal_node_right_child(before) = INVALID_PAGE_NUM
    THEN after = [before EXCEPT !.link = child]
    ELSE /\ internal_node_num_keys(after) = internal_node_num_keys(before) + 1
         /\ ChildrenOf(after) = ChildrenOf(before) \cup {child}
         /\ Cardinality(ChildrenOf(after)) = internal_node_num_keys(after) + 1
         /\ \A i \in 0 .. (internal_node_num_keys(after) - 1) :
               /\ internal_node_key(after, i) = Max(internal_node_child(after, i))
               /\ Max(internal_node_child(after, i)) < Max(internal_node_child(after, i + 1))

\* ------------------------------------------------ the split of an internal node
RECURSIVE KeysBelow(_, _, _)
\* The keys stored in the leaves below page n of the store s.
KeysBelow(s, n, fuel) ==
    IF get_node_type(Page(s, n)) = LEAF THEN LeafKeys(Page(s, n))
    ELSE IF fuel = 0 THEN {}
    ELSE UNION {KeysBelow(s, c, fuel - 1) : c \in ChildrenOf(Page(s, n))}

MaxBelow(s, n) == MaxOf(KeysBelow(s, n, MaxDepth))

\* The page of the old node once internal_node_split_and_insert is done
\* with the node of page n of the store s: create_new_root moves a root to
\* child 0 of page 0.
OldNodeAfter(s, a, n) ==
    IF is_node_root(Page(s, n)) THEN internal_node_child(Page(a, 0), 0) ELSE n

\* What internal_node_split_and_insert(n, child) makes of the children
\* former of page n: old and new are the old node and the new sibling in
\* the store a after it, kept the last child the old node keeps.
InternalSplitHolds(a, former, kept, child, old, new) ==
    /\ ChildrenOf(old) \cup ChildrenOf(new) = former \cup {child}
    /\ ChildrenOf(old) \cap ChildrenOf(new) = {}
    /\ Cardinality(former \cup {child}) = INTERNAL_NODE_MAX_KEYS + 2
    /\ Cardinality(ChildrenOf(old)) = internal_node_num_keys(old) + 1
    /\ Cardinality(ChildrenOf(new)) = internal_node_num_keys(new) + 1
    /\ \A c \in ChildrenOf(old), d \in ChildrenOf(new) : MaxBelow(a, c) < MaxBelow(a, d)
    /\ internal_node_right_child(old) # INVALID_PAGE_NUM
    /\ internal_node_right_child(new) # INVALID_PAGE_NUM
    /\ internal_node_right_child(old) < a.num_pages
    /\ internal_node_right_child(new) < a.num_pages
    /\ child \in ChildrenOf(old) <=> MaxBelow(a, child) < MaxBelow(a, kept)

\* internal_node_split_and_insert(n, child) from the store s to the store
\* a, the new sibling on page new_page_num.
InternalSplitDone(s, a, n, child, new_page_num) ==
    InternalSplitHolds(a, ChildrenOf(Page(s, n)),
                       internal_node_child(Page(s, n), INTERNAL_NODE_MAX_KEYS \div 2),
                       child, Page(a, OldNodeAfter(s, a, n)), Page(a, new_page_num))

\* The parent of the leaf an insert of key goes to.
ParentOfLeaf(key) == node_parent(Node(table_find(St, key).page_num))

\* An insert of key splits a leaf whose parent is full.
SplitsParent(key) ==
    /\ leaf_node_num_cells(Node(table_find(St, key).page_num)) = LEAF_NODE_MAX_CELLS
    /\ ~is_node_root(Node(table_find(St, key).page_num))
    /\ internal_node_num_keys(Node(ParentOfLeaf(key))) = INTERNAL_NODE_MAX_KEYS

\* An insert of key splits a leaf, its parent and the parent of its parent.
SplitsGrandparent(key) ==
    /\ SplitsParent(key)
    /\ ~is_node_root(Node(ParentOfLeaf(key)))
    /\ internal_node_num_keys(Node(node_parent(Node(ParentOfLeaf(key))))) = INTERNAL_NODE_MAX_KEYS

\* The keys of the rows and the keys next to them.
NearKeys == {0} \cup Ids(accepted) \cup {k + 1 : k \in Ids(accepted)}

\* table_find(key) ends on a leaf.
FindEnds(key) ==
    /\ ~table_find(St, key).store.fatal
    /\ table_find(St, key).page_num \in Pages
    /\ get_node_type(Node(table_find(St, key).page_num)) = LEAF

\* ---------------------------------------------------- the scan step by step
\* The cursor of a scan and the cells it has left behind.
ScanReport(cursor, visited) ==
    [op |-> "scan", page_num |-> cursor.page_num, cell_num |-> cursor.cell_num,
     end_of_table |-> cursor.end_of_table, visited |-> visited]

\* No scan is under way.
ScanIdle == IF last.op = "scan" THEN last.end_of_table ELSE TRUE

\* A scan has ended.
ScanEnded == IF last.op = "scan" THEN last.end_of_table ELSE FALSE

\* execute_select: cursor = table_start(table)
ScanStart ==
    /\ session = "open"
    /\ last.op = "insert"
    /\ load % ScanEvery = 0
    /\ ~table_start(St).store.fatal
    /\ last' = ScanReport(table_start(St), <<>>)
    /\ cache' = table_start(St).store.cache
    /\ num_pages' = table_start(St).store.num_pages
    /\ UNCHANGED <<file, session, sessions, load, burst, later, accepted, durable>>

\* execute_select: one turn of while not cursor.end_of_table, the row under
\* the cursor read from its page, then cursor_advance(cursor).
ScanAdvance ==
    /\ session = "open"
    /\ last.op = "scan"
    /\ ~last.end_of_table
    /\ Len(last.visited) < MaxLoad
    /\ ~get_page(St, last.page_num).fatal
    /\ last' = ScanReport(cursor_advance([page_num |-> last.page_num,
                                           cell_num |-> last.cell_num,
                                           end_of_table |-> FALSE,
                                           store |-> get_page(St, last.page_num)]),
                          Append(last.visited, <<last.page_num, last.cell_num>>))
    /\ cache' = get_page(St, last.page_num).cache
    /\ num_pages' = get_page(St, last.page_num).num_pages
    /\ UNCHANGED <<file, session, sessions, load, burst, later, accepted, durable>>

\* An insert of the workload, no scan being under way.
ScanInsert == ScanIdle /\ InsertNext

ScanNext == ScanInsert \/ ScanStart \/ ScanAdvance

\* The inserts of the workload and, after every ScanEvery-th of them, the
\* scan of execute_select one cursor_advance at a time; the while loop of
\* execute_select goes on as long as end_of_table is false.
ScanSpec == Init /\ [][ScanNext]_vars /\ WF_vars(ScanAdvance)

\* The cells of the leaves: <<page, cell>>.
LeafCells ==
    {<<n, i>> : n \in {m \in Pages : get_node_type(Node(m)) = LEAF}, i \in LeafSlots}
        \cap {c \in Pages \X LeafSlots : c[2] < leaf_node_num_cells(Node(c[1]))}

\* ------------------------------------------------------ table_start by itself
\* insert 0 <username> <email>, at any point of the workload
ZeroInsert ==
    /\ session = "open"
    /\ 0 \notin Ids(accepted)
    /\ InsertLine(RowOf(0))
    /\ UNCHANGED <<sessions, load, burst, later>>

\* cursor = table_start(table), on the new database and after an insert
TableStart ==
    /\ session = "open"
    /\ last.op \in {"open", "insert"}
    /\ ~table_start(St).store.fatal
    /\ last' = [op |-> "table_start",
                page_num |-> table_start(St).page_num,
                cell_num |-> table_start(St).cell_num,
                end_of_table |-> table_start(St).end_of_table]
    /\ cache' = table_start(St).store.cache
    /\ num_pages' = table_start(St).store.num_pages
    /\ UNCHANGED <<file, session, sessions, load, burst, later, accepted, durable>>

StartNext == InsertNext \/ ZeroInsert \/ TableStart

\* The inserts of the workload, key 0 inserted at any point of it, and
\* table_start applied to the trees they build.
StartSpec == Init /\ [][StartNext]_vars

\* ------------------------------------------------ a long shuffled workload
\* The ids of 210 insert lines, a permutation of 1 .. 210, in the order
\* main() reads them.
DeepIds ==
    <<
       49, 161, 27, 21, 52, 140, 196, 25, 35, 150, 147, 155, 20, 19, 5,
       174, 96, 134, 3, 44, 1, 87, 151, 165, 30, 120, 202, 66, 190, 98,
       114, 154, 70, 182, 159, 22, 148, 178, 11, 205, 152, 62, 189, 199,
       47, 210, 125, 115, 13, 168, 86, 84, 88, 89, 108, 74, 105, 146,
       56, 91, 23, 31, 36, 4, 157, 195, 183, 131, 53, 103, 185, 136, 79,
       162, 110, 41, 97, 16, 71, 158, 85, 80, 122, 149, 112, 133, 50,
       46, 184, 179, 156, 175, 160, 153, 169, 45, 166, 7, 90, 128, 127,
       26, 73, 113, 77, 204, 2, 172, 192, 17, 6, 40, 129, 164, 32, 171,
       170, 14, 188, 39, 24, 48, 42, 15, 94, 194, 191, 9, 69, 18, 135,
       197, 209, 10, 78, 177, 106, 59, 95, 75, 141, 83, 167, 118, 138,
       163, 63, 176, 109, 72, 101, 92, 143, 181, 173, 137, 55, 12, 142,
       34, 28, 93, 130, 193, 38, 104, 33, 206, 139, 58, 144, 8, 43, 29,
       124, 37, 145, 208, 203, 119, 200, 51, 132, 126, 111, 207, 54, 99,
       198, 60, 65, 100, 116, 76, 107, 102, 82, 180, 57, 121, 123, 67,
       117, 187, 68, 201, 81, 61, 186, 64
    >>

\* insert <id> <username> <email>, the next line of DeepIds
DeepInsert ==
    /\ session = "open"
    /\ load < Len(DeepIds)
    /\ InsertLine(RowOf(DeepIds[load + 1]))
    /\ load' = load + 1
    /\ UNCHANGED <<sessions, burst, later>>

DeepNext == DeepInsert

\* One session that executes the lines of DeepIds.
DeepSpec == Init /\ [][DeepNext]_vars

\* ------------------------------------------- an id wider than four bytes
\* insert <id> <username> <email> with an id above 0xFFFFFFFF
WideInsert ==
    /\ session = "open"
    /\ InsertLine(ProbeRow(WideId))
    /\ UNCHANGED <<sessions, load, burst, later>>

WideNext == InsertNext \/ WideInsert

\* The inserts of the workload, with an insert of a wide id at any point.
WideSpec == Init /\ [][WideNext]_vars

\* ------------------------------------------- files that end inside a page
\* A file that ends inside a page is its whole pages followed by a tail of
\* fewer than PAGE_SIZE bytes.
PartPage(k) == [bytes |-> k]
IsPart(p) == "bytes" \in DOMAIN p
RECURSIVE file_length(_)
file_length(f) ==
    IF f = <<>> THEN 0
    ELSE file_length(SubSeq(f, 1, Len(f) - 1))
         + (IF IsPart(f[Len(f)]) THEN f[Len(f)].bytes ELSE PAGE_SIZE)
WholePages(f) == SubSeq(f, 1, file_length(f) \div PAGE_SIZE)
CutBytes == {1, PAGE_SIZE - 1}

\* A Pager.__init__ without the check of the file length.
Pager_init_Lenient(f) ==
    [cache |-> EmptyCache, num_pages |-> file_length(f) \div PAGE_SIZE, file |-> f,
     fatal |-> FALSE]

\* Pager.__init__(filename): num_pages is file_length // PAGE_SIZE, and a
\* length that is not a whole number of pages is fatal before self.pages
\* exists.
Pager_init(f) ==
    [cache |-> EmptyCache, num_pages |-> file_length(f) \div PAGE_SIZE, file |-> f,
     fatal |-> file_length(f) % PAGE_SIZE # 0]

\* While no session runs, something other than the program cuts the file
\* inside a page or appends a few bytes to it.
Cut ==
    /\ session = "closed"
    /\ sessions < MaxSessions
    /\ file = WholePages(file)
    /\ \E n \in {0, Len(file) - 1, Len(file)} \cap (0 .. Len(file)) :
          \E k \in CutBytes : file' = SubSeq(file, 1, n) \o <<PartPage(k)>>
    /\ UNCHANGED <<cache, num_pages, session, sessions, load, burst, later, accepted, durable, last>>

\* the program is started on the file as it is now
OpenFile ==
    /\ session = "closed"
    /\ sessions < MaxSessions
    /\ sessions' = sessions + 1
    /\ IF Pager_init(file).fatal
       THEN /\ Die
            /\ last' = [op |-> "open", key |-> 0, result |-> "FATAL"]
       ELSE /\ cache' = TableOpen(WholePages(file)).cache
            /\ num_pages' = TableOpen(WholePages(file)).num_pages
            /\ session' = "open"
            /\ last' = [op |-> "open", key |-> 0, result |-> "SUCCESS"]
            /\ UNCHANGED <<file, accepted, durable>>
    /\ UNCHANGED <<load, burst, later>>

CutNext == InsertNext \/ Exit \/ Cut \/ OpenFile

\* Sessions of inserts ended by .exit, with the file damaged between them.
CutSpec == Init /\ [][CutNext]_vars

\* The smallest key of a set of keys, -1 for the empty set.
MinOf(S) == IF S = {} THEN -1 ELSE CHOOSE x \in S : \A y \in S : x <= y

RECURSIVE NodesBelow(_, _)
\* The pages of the nodes reachable from page n by the child lists, n
\* included.
NodesBelow(n, fuel) ==
    IF get_node_type(Node(n)) = LEAF \/ fuel = 0 THEN {n}
    ELSE {n} \cup UNION {NodesBelow(c, fuel - 1) : c \in ChildrenOf(Node(n)) \cap Pages}

\* ----------------------------------------------------------------- claims
\* C1: after any sequence of execute_insert calls on a new database,
\* execute_select emits rows with strictly ascending ids, and the keys
\* inside every leaf are strictly ascending.
C1_SelectAscending ==
    session = "open" =>
        /\ StrictlyAscending(RowIds(SelectRows))
        /\ \A n \in Pages :
              get_node_type(Node(n)) = LEAF =>
                  \A i \in 1 .. (leaf_node_num_cells(Node(n)) - 1) :
                      leaf_node_key(Node(n), i - 1) < leaf_node_key(Node(n), i)

\* C2: after n distinct ids were supplied, execute_select emits exactly n
\* rows: every accepted id once, and no other id.
C2_OneRowPerId ==
    session = "open" =>
        /\ Len(SelectRows) = Cardinality(Ids(accepted))
        /\ Range(RowIds(SelectRows)) = Ids(accepted)

\* C3 as stated: execute_select emits, for every accepted row, exactly the
\* id, username and email that were supplied.
C3_ExactStrings ==
    session = "open" => \A row \in accepted : row \in Range(SelectRows)

\* C3, amended: execute_select emits every accepted row with the username
\* and email supplied with it, their trailing NUL characters removed, and
\* emits no row that was not accepted: a value stays attached to its key
\* through cell shifts, leaf splits, root replacements and internal splits.
C3_StrippedStrings ==
    session = "open" => Range(SelectRows) = {Stripped(row) : row \in accepted}

\* A row whose username ends with NUL was accepted, the root has been split
\* as an internal node since, and select has printed the rows.
C3_Witness ==
    /\ session = "open"
    /\ last.op = "select"
    /\ RootWasSplit
    /\ \E row \in accepted : row.username # RStrip(row.username)
    /\ Cardinality(accepted) > BaseLoad

\* C4: execute_insert of an id accepted before (in this session or stored in
\* the opened file) returns DUPLICATE_KEY and leaves every node, num_pages
\* and the output of execute_select as they were.  (A step is such a call
\* when its line is an insert of an accepted id that prepare_statement
\* lets through.)
C4_DuplicateRejected ==
    [][(/\ last'.op = "insert"
        /\ last'.key \in Ids(accepted)
        /\ last'.result \notin {NEGATIVE_ID, STRING_TOO_LONG}) =>
          /\ last'.result = DUPLICATE_KEY
          /\ num_pages' = num_pages
          /\ \A n \in Pages : Page(StNext, n) = Node(n)
          /\ execute_select(StNext).rows = SelectRows]_vars

\* C5: when a session ends with .exit, a new session opened on the file
\* prints for select what the closed session would have printed just
\* before .exit (over a new file or an existing one, session after session).
C5_ReopenSame ==
    [][(session = "open" /\ session' = "closed") =>
          execute_select(TableOpen(file')).rows = SelectRows]_vars

\* A later session on a file that a session with an internal split of the
\* root has closed prints the rows of that file.
C5_Witness ==
    /\ session = "open"
    /\ sessions > 1
    /\ last.op = "select"
    /\ RootWasSplit
    /\ durable # {}
    /\ Range(SelectRows) = {Stripped(row) : row \in accepted}

\* C6: the file changes only in Table.close, which only .exit reaches: no
\* insert, select, EOF exit or fatal exit writes to it, so a session that
\* ends without .exit leaves the file as it was.
C6_FileOnlyInClose ==
    [][/\ file' # file => (session = "open" /\ session' = "closed" /\ last'.op = "exit")
       /\ session' = "dead" => file' = file]_vars

\* A session on an existing file has accepted a row and ended by EOF.
C6_Witness ==
    /\ session = "dead"
    /\ last.op = "eof"
    /\ sessions > 1
    /\ later > 0
    /\ Len(file) > 1

\* C7: after a session that ends with .exit, the file holds a positive whole
\* number of pages, the num_pages of the pager at the moment of the close.
C7_FileLength ==
    session = "closed" => Len(file) > 0 /\ Len(file) = num_pages

\* The one session on a new file has ended with .exit and no insert.
C7_Witness ==
    /\ session = "closed"
    /\ sessions = 1
    /\ load = 0
    /\ Len(file) = 1

\* C8: between top-level operations exactly one node among the pages
\* [0, num_pages) has is_root set, and it is page 0.
C8_OneRoot ==
    session = "open" => \A n \in Pages : is_node_root(Node(n)) <=> n = 0

\* The root has been split as a leaf and as an internal node.
C8_Witness ==
    /\ session = "open"
    /\ last.op = "insert"
    /\ last.result = EXECUTE_SUCCESS
    /\ RootWasSplit

\* C9: after every completed execute_insert, the parent field of every
\* non-root node is the page number of an internal node that lists the node
\* as a cell child or as its right child.
C9_ParentListsChild ==
    session = "open" =>
        \A n \in Pages \ {0} :
            /\ node_parent(Node(n)) \in Pages
            /\ get_node_type(Node(node_parent(Node(n)))) = INTERNAL
            /\ n \in ChildrenOf(Node(node_parent(Node(n))))

\* C10: after every completed execute_insert, in every internal node key i
\* is the largest key stored below child i, and the largest keys below
\* consecutive children (the right child last) strictly increase.
C10_SeparatorKeys ==
    session = "open" =>
        \A n \in Pages :
            get_node_type(Node(n)) = INTERNAL =>
                /\ \A i \in 0 .. (internal_node_num_keys(Node(n)) - 1) :
                      internal_node_key(Node(n), i)
                          = SubtreeMax(internal_node_child(Node(n), i))
                /\ \A i \in 0 .. (internal_node_num_keys(Node(n)) - 1) :
                      SubtreeMax(internal_node_child(Node(n), i))
                          < SubtreeMax(internal_node_child(Node(n), i + 1))

\* C11: after every completed execute_insert, every leaf holds at most
\* LEAF_NODE_MAX_CELLS cells and every internal node holds at least one and
\* at most INTERNAL_NODE_MAX_KEYS keys.
C11_NodeSizes ==
    session = "open" =>
        \A n \in Pages :
            IF get_node_type(Node(n)) = LEAF
            THEN leaf_node_num_cells(Node(n)) <= LEAF_NODE_MAX_CELLS
            ELSE /\ internal_node_num_keys(Node(n)) >= 1
                 /\ internal_node_num_keys(Node(n)) <= INTERNAL_NODE_MAX_KEYS

\* An insert has succeeded in a tree whose root was split as an internal
\* node and which has a full leaf and a full internal node.
C11_Witness ==
    /\ session = "open"
    /\ last.op = "insert"
    /\ last.result = EXECUTE_SUCCESS
    /\ RootWasSplit
    /\ \E n \in Pages : /\ get_node_type(Node(n)) = LEAF
                        /\ leaf_node_num_cells(Node(n)) = LEAF_NODE_MAX_CELLS
    /\ \E n \in Pages : /\ get_node_type(Node(n)) = INTERNAL
                        /\ internal_node_num_keys(Node(n)) = INTERNAL_NODE_MAX_KEYS

\* C12: after every completed execute_insert no internal node of the store
\* (those reachable from the root among them) has right_child equal to
\* INVALID_PAGE_NUM: the value is gone when internal_node_split_and_insert
\* returns.
C12_RightChildValid ==
    session = "open" =>
        \A n \in Pages :
            get_node_type(Node(n)) = INTERNAL =>
                /\ internal_node_right_child(Node(n)) # INVALID_PAGE_NUM
                /\ internal_node_right_child(Node(n)) \in Pages

\* An insert has succeeded that split the root as an internal node or
\* split an internal node below it: the store has at least four internal
\* nodes, the newer ones initialised empty by a split.
C12_Witness ==
    /\ session = "open"
    /\ last.op = "insert"
    /\ last.result = EXECUTE_SUCCESS
    /\ RootWasSplit
    /\ Cardinality({n \in Pages : get_node_type(Node(n)) = INTERNAL}) >= 4

\* C13: the next_leaf chain that starts at the leftmost leaf visits every
\* leaf exactly once, in the left-to-right order in which the leaves hang
\* in the tree; next_leaf is 0 for the rightmost leaf only, and names a
\* leaf other than page 0 everywhere else.
C13_LeafChain ==
    session = "open" =>
        /\ LeafChain(Head(TreeLeaves), num_pages) = TreeLeaves
        /\ Range(TreeLeaves) = {n \in Pages : get_node_type(Node(n)) = LEAF}
        /\ Cardinality(Range(TreeLeaves)) = Len(TreeLeaves)
        /\ \A n \in Range(TreeLeaves) :
              IF n = TreeLeaves[Len(TreeLeaves)]
              THEN leaf_node_next_leaf(Node(n)) = 0
              ELSE /\ leaf_node_next_leaf(Node(n)) \in Pages \ {0}
                   /\ get_node_type(Node(leaf_node_next_leaf(Node(n)))) = LEAF

\* C14: while a session runs, num_pages never decreases, whatever the
\* operation (an insert, a select, .btree, a rejected line; a get_page of
\* any page of the store or of the next unused page), so a page number
\* below num_pages stays a page of the store.
C14_NumPagesGrows ==
    [][(session = "open" /\ session' = "open") =>
          /\ num_pages' >= num_pages
          /\ Pages \subseteq 0 .. (num_pages' - 1)
          /\ \A n \in 0 .. get_unused_page_num(St) :
                get_page(St, n).num_pages >= num_pages]_vars

\* A later session on a file that leaf and internal splits have grown has
\* fetched pages below num_pages from the file and has accepted a row.
C14_Witness ==
    /\ session = "open"
    /\ sessions > 1
    /\ last.op = "insert"
    /\ last.result = EXECUTE_SUCCESS
    /\ Len(file) > BaseLeaves
    /\ Cardinality(DOMAIN cache) > 1
    /\ DOMAIN cache # Pages

\* C15: Pager.get_page(n) ends the process exactly when n is larger than
\* TABLE_MAX_PAGES, with cache and num_pages as they were before the call;
\* for every other n it returns a buffer (page n is in the cache after the
\* call) and the session goes on.
C15_FetchFatal ==
    [][last'.op = "get_page" /\ session = "open" =>
          /\ last'.result = "FATAL" <=> last'.key > TABLE_MAX_PAGES
          /\ last'.result = "FATAL" =>
                /\ get_page(St, last'.key).cache = cache
                /\ get_page(St, last'.key).num_pages = num_pages
                /\ session' = "dead"
          /\ last'.result # "FATAL" =>
                /\ session' = "open"
                /\ last'.key \in DOMAIN cache'
                /\ cache'[last'.key] = Page(St, last'.key)]_vars

\* get_page(TABLE_MAX_PAGES + 1) has ended the process.
C15_Witness ==
    /\ session = "dead"
    /\ last.op = "get_page"
    /\ last.key = TABLE_MAX_PAGES + 1
    /\ last.result = "FATAL"

\* C16: the store never holds more than TABLE_MAX_PAGES pages: num_pages is
\* at most TABLE_MAX_PAGES in every reachable state.
C16_PageCap ==
    num_pages <= TABLE_MAX_PAGES

\* C17: while a session runs the cache holds one buffer per page number
\* and never drops it; a get_page(n) of a cached page leaves the pager as
\* it is, so what was written through the buffer of an earlier get_page(n)
\* is what a later get_page(n) returns; the cached page numbers are always
\* below num_pages.
C17_CacheStable ==
    /\ [](/\ DOMAIN cache \subseteq Pages
          /\ \A n \in DOMAIN cache : get_page(St, n) = St
          /\ session = "open" =>
                \A n \in {0, Len(file), num_pages - 1, get_unused_page_num(St)} :
                    /\ n \in DOMAIN get_page(St, n).cache
                    /\ get_page(Put(get_page(St, n), n, MarkedPage), n)
                          = Put(get_page(St, n), n, MarkedPage)
                    /\ Page(get_page(Put(get_page(St, n), n, MarkedPage), n), n) = MarkedPage)
    /\ [][(session = "open" /\ session' = "open") =>
             DOMAIN cache \subseteq DOMAIN cache']_vars

\* A later session has fetched pages of the file, written a row into one of
\* them, and select has read the row back through get_page.
C17_Witness ==
    /\ session = "open"
    /\ sessions > 1
    /\ last.op = "select"
    /\ Len(file) > BaseLeaves
    /\ accepted # durable
    /\ Ids(accepted \ durable) \subseteq Range(RowIds(SelectRows))

\* C18: a line that ends in a reported error other than a duplicate key
\* (unrecognized meta command, unrecognized keyword, syntax error, negative
\* id, string too long) leaves the cache, num_pages, the file and the rows
\* of the table as they were, and the session goes on with the store it had:
\* the next statement runs on the same pages.
C18_ErrorsTouchNothing ==
    [][(/\ session = "open"
        /\ last'.op \in {"line", "insert"}
        /\ last'.result \in {UNRECOGNIZED_COMMAND, UNRECOGNIZED_STATEMENT, SYNTAX_ERROR,
                             NEGATIVE_ID, STRING_TOO_LONG}) =>
          /\ UNCHANGED <<cache, num_pages, file, session, accepted>>
          /\ StNext = St]_vars

\* A later session that has not fetched a page yet has answered a line
\* with a syntax error.
C18_Witness ==
    /\ session = "open"
    /\ sessions > 1
    /\ last.op = "line"
    /\ last.result = SYNTAX_ERROR
    /\ Len(file) > BaseLeaves
    /\ DOMAIN cache = {}

\* C19: prepare_statement on an insert line of four tokens whose id is an
\* integer returns NEGATIVE_ID when the id is below 0, otherwise
\* STRING_TOO_LONG when the username has more than COLUMN_USERNAME_SIZE or
\* the email more than COLUMN_EMAIL_SIZE characters, otherwise SUCCESS: id 0,
\* a username of exactly COLUMN_USERNAME_SIZE and an email of exactly
\* COLUMN_EMAIL_SIZE characters are accepted.
C19_PrepareResult ==
    last.op = "prepare" =>
        /\ last.key < 0 => last.result = NEGATIVE_ID
        /\ (last.key >= 0 /\ (last.username > COLUMN_USERNAME_SIZE \/ last.email > COLUMN_EMAIL_SIZE))
              => last.result = STRING_TOO_LONG
        /\ (last.key >= 0 /\ last.username <= COLUMN_USERNAME_SIZE /\ last.email <= COLUMN_EMAIL_SIZE)
              => last.result = PREPARE_SUCCESS

\* prepare_statement has accepted id 0 with a username of exactly
\* COLUMN_USERNAME_SIZE and an email of exactly COLUMN_EMAIL_SIZE characters.
C19_Witness ==
    /\ last.op = "prepare"
    /\ last.key = 0
    /\ last.username = COLUMN_USERNAME_SIZE
    /\ last.email = COLUMN_EMAIL_SIZE
    /\ last.result = PREPARE_SUCCESS

\* C20: after LEAF_NODE_MAX_CELLS + 1 distinct ids were inserted into an
\* empty database, in whatever order, page 0 is an internal root with
\* exactly one key and two leaf children: the left leaf holds the
\* LEAF_NODE_LEFT_SPLIT_COUNT smallest ids, the right leaf the
\* LEAF_NODE_RIGHT_SPLIT_COUNT largest, and the key of the root is the
\* largest id of the left leaf (LEAF_NODE_LEFT_SPLIT_COUNT for the ids
\* 1 .. LEAF_NODE_MAX_CELLS + 1).
C20_FirstSplit ==
    (session = "open" /\ load = LEAF_NODE_MAX_CELLS + 1) =>
        /\ get_node_type(Node(0)) = INTERNAL
        /\ is_node_root(Node(0))
        /\ internal_node_num_keys(Node(0)) = 1
        /\ num_pages = 3
        /\ internal_node_child(Node(0), 0) # internal_node_right_child(Node(0))
        /\ \A c \in ChildrenOf(Node(0)) : c \in Pages /\ get_node_type(Node(c)) = LEAF
        /\ leaf_node_num_cells(Node(internal_node_child(Node(0), 0))) = LEAF_NODE_LEFT_SPLIT_COUNT
        /\ LeafKeys(Node(internal_node_child(Node(0), 0))) = 1 .. LEAF_NODE_LEFT_SPLIT_COUNT
        /\ leaf_node_num_cells(Node(internal_node_right_child(Node(0)))) = LEAF_NODE_RIGHT_SPLIT_COUNT
        /\ LeafKeys(Node(internal_node_right_child(Node(0))))
              = (LEAF_NODE_LEFT_SPLIT_COUNT + 1) .. (LEAF_NODE_MAX_CELLS + 1)
        /\ internal_node_key(Node(0), 0) = LEAF_NODE_LEFT_SPLIT_COUNT
        /\ internal_node_key(Node(0), 0) = MaxOf(LeafKeys(Node(internal_node_child(Node(0), 0))))

\* The split has happened on the insert of the id that became the key of
\* the root, the ids around it having been supplied before.
C20_Witness ==
    /\ session = "open"
    /\ load = LEAF_NODE_MAX_CELLS + 1
    /\ last.op = "insert"
    /\ last.result = EXECUTE_SUCCESS
    /\ last.key = LEAF_NODE_LEFT_SPLIT_COUNT
    /\ get_node_type(Node(0)) = INTERNAL

\* C21: for every key stored in a leaf, table_find from page 0 returns the
\* cursor of that key: the page of the leaf that holds it and the index of
\* its cell, so the keys search reaches are the keys the next_leaf scan
\* reaches.
C21_FindReachesKey ==
    session = "open" =>
        \A n \in Pages :
            get_node_type(Node(n)) = LEAF =>
                \A i \in 0 .. (leaf_node_num_cells(Node(n)) - 1) :
                    /\ table_find(St, leaf_node_key(Node(n), i)).page_num = n
                    /\ table_find(St, leaf_node_key(Node(n), i)).cell_num = i

\* C22: internal_node_find_child(node, key) returns the smallest index i in
\* [0, num_keys) with keys[i] >= key and num_keys when every separator is
\* smaller than key, so a key equal to separator i is routed to child i,
\* the child left of that separator.
C22_FindChild ==
    last.op = "find_child" =>
        /\ last.result \in 0 .. Len(last.keys)
        /\ \A i \in 1 .. last.result : last.keys[i] < last.key
        /\ last.result < Len(last.keys) => last.keys[last.result + 1] >= last.key
        /\ \A i \in 1 .. Len(last.keys) : last.keys[i] = last.key => last.result = i - 1

\* The key looked for equals the middle one of INTERNAL_NODE_MAX_KEYS
\* separators.
C22_Witness ==
    /\ last.op = "find_child"
    /\ Len(last.keys) = INTERNAL_NODE_MAX_KEYS
    /\ last.keys[2] = last.key
    /\ last.result = 1

\* C23: leaf_node_find on a leaf with strictly ascending keys returns a
\* cell_num in 0 .. num_cells: the first index whose key is >= key (the
\* index of the key itself when the leaf holds it), num_cells when every
\* key of the leaf is smaller.
C23_LeafFind ==
    last.op = "leaf_find" =>
        /\ last.result \in 0 .. Len(last.keys)
        /\ last.result = SmallerKeys(last.keys, last.key)
        /\ \A i \in 1 .. Len(last.keys) : last.keys[i] = last.key => last.result = i - 1
        /\ (\A i \in 1 .. Len(last.keys) : last.keys[i] < last.key) => last.result = Len(last.keys)

\* A key that a full leaf does not hold, between two of its keys, was
\* looked for.
C23_Witness ==
    /\ last.op = "leaf_find"
    /\ Len(last.keys) = LEAF_NODE_MAX_CELLS
    /\ last.key = 7
    /\ last.result = 3

\* C24: leaf_node_insert on a leaf with fewer than LEAF_NODE_MAX_CELLS cells
\* moves the cells from cell_num on one slot to the right in their order,
\* writes the new key and value at cell_num and raises num_cells by one;
\* the cells below cell_num, the other header fields of the leaf, every
\* other page and num_pages stay as they were.
C24_LeafInsertFrame ==
    [][(/\ session = "open"
        /\ last'.op = "insert"
        /\ last'.result = EXECUTE_SUCCESS
        /\ leaf_node_num_cells(Node(table_find(St, last'.key).page_num)) < LEAF_NODE_MAX_CELLS) =>
          /\ num_pages' = num_pages
          /\ \A n \in Pages \ {table_find(St, last'.key).page_num} : Page(StNext, n) = Node(n)
          /\ \E row \in accepted' :
                /\ row.id = last'.key
                /\ Page(StNext, table_find(St, last'.key).page_num)
                     = [Node(table_find(St, last'.key).page_num) EXCEPT
                           !.num = @ + 1,
                           !.lcells = CellsWith(Node(table_find(St, last'.key).page_num),
                                                table_find(St, last'.key).cell_num,
                                                row.id, serialize_row(row))]]_vars

\* An insert without a split has put its key below other keys of a leaf
\* that is not the root.
C24_Witness ==
    /\ session = "open"
    /\ last.op = "insert"
    /\ last.result = EXECUTE_SUCCESS
    /\ RootWasSplit
    /\ leaf_node_num_cells(LastLeaf) > LEAF_NODE_RIGHT_SPLIT_COUNT
    /\ table_find(St, last.key).cell_num < leaf_node_num_cells(LastLeaf) - 1
    /\ leaf_node_key(LastLeaf, table_find(St, last.key).cell_num) = last.key

\* C25: leaf_node_split_and_insert on a full leaf, whatever the cell_num in
\* 0 .. LEAF_NODE_MAX_CELLS, leaves the LEAF_NODE_LEFT_SPLIT_COUNT smallest
\* of the LEAF_NODE_MAX_CELLS + 1 cells in the old leaf and the
\* LEAF_NODE_RIGHT_SPLIT_COUNT largest in the new leaf, each in ascending
\* key order: no cell is lost, duplicated or read after it was overwritten.
C25_LeafSplit ==
    [][(/\ session = "open"
        /\ last'.op = "insert"
        /\ last'.result = EXECUTE_SUCCESS
        /\ leaf_node_num_cells(Node(table_find(St, last'.key).page_num)) = LEAF_NODE_MAX_CELLS) =>
          \E row \in accepted' :
              /\ row.id = last'.key
              /\ SplitHolds(AllCells(Node(table_find(St, last'.key).page_num),
                                     table_find(St, last'.key).cell_num,
                                     row.id, serialize_row(row)),
                            Page(StNext, OldLeafAfter(table_find(St, last'.key).page_num)),
                            Page(StNext, get_unused_page_num(St)))]_vars

\* The split has happened on the insert of the smallest id: cell_num 0,
\* every cell of the full leaf moves.
C25_Witness ==
    /\ session = "open"
    /\ load = LEAF_NODE_MAX_CELLS + 1
    /\ last.op = "insert"
    /\ last.result = EXECUTE_SUCCESS
    /\ last.key = 1
    /\ get_node_type(Node(0)) = INTERNAL

\* C26: create_new_root(right) leaves page 0 an internal node with is_root
\* set, one key, child 0 a freshly allocated page L, key 0 the largest key
\* of L and right_child = right; L holds the type and the contents of the
\* former root with is_root cleared; L and right have parent 0; and when
\* the former root was internal, each of its children, the right child
\* included, has parent L.
C26_NewRoot ==
    /\ [](last.op = "create_new_root" =>
            /\ NewRootHolds(Node(0), num_pages, last.after, last.right,
                            internal_node_child(Page(last.after, 0), 0))
            /\ internal_node_key(Page(last.after, 0), 0) = SubtreeMax(0))
    /\ [][(/\ session = "open"
            /\ last'.op = "insert"
            /\ last'.result = EXECUTE_SUCCESS
            /\ get_node_type(Node(0)) = LEAF
            /\ leaf_node_num_cells(Node(0)) = LEAF_NODE_MAX_CELLS) =>
              \E row \in accepted' :
                  /\ row.id = last'.key
                  /\ NewRootHolds(FormerRootLeaf(Node(0),
                                                AllCells(Node(0), table_find(St, row.id).cell_num,
                                                         row.id, serialize_row(row)),
                                                get_unused_page_num(St)),
                                  num_pages, StNext, get_unused_page_num(St),
                                  internal_node_child(Page(StNext, 0), 0))
                  /\ internal_node_key(Page(StNext, 0), 0)
                        = MaxOf(LeafKeys(Page(StNext, internal_node_child(Page(StNext, 0), 0))))]_vars

\* create_new_root has been applied to a full internal root whose children
\* are internal nodes.
C26_Witness ==
    /\ last.op = "create_new_root"
    /\ RootWasSplit
    /\ ~last.after.fatal
    /\ last.after.num_pages = num_pages + 2

\* C27: internal_node_insert(parent, child) on a parent with fewer than
\* INTERNAL_NODE_MAX_KEYS keys and a valid right_child raises num_keys by
\* exactly one and leaves the parent listing its former children and the
\* child in the order of their largest keys, every separator being the
\* largest key of the child left of it; on a parent whose right_child is
\* INVALID_PAGE_NUM the child becomes the right_child and num_keys stays.
C27_InternalInsert ==
    /\ [](last.op = "internal_node_insert" =>
            /\ ~last.after.fatal
            /\ InsertHolds(Page(last.before, last.parent), Page(last.after, last.parent),
                           last.children[Len(last.children)], SubtreeMax))
    /\ [][(/\ session = "open"
            /\ last'.op = "insert"
            /\ last'.result = EXECUTE_SUCCESS
            /\ leaf_node_num_cells(Node(table_find(St, last'.key).page_num)) = LEAF_NODE_MAX_CELLS
            /\ ~is_node_root(Node(table_find(St, last'.key).page_num))
            /\ internal_node_num_keys(Node(node_parent(Node(table_find(St, last'.key).page_num))))
                  < INTERNAL_NODE_MAX_KEYS) =>
              InsertHolds(Node(node_parent(Node(table_find(St, last'.key).page_num))),
                          Page(StNext, node_parent(Node(table_find(St, last'.key).page_num))),
                          get_unused_page_num(St),
                          LAMBDA c : MaxOf(LeafKeys(Page(StNext, c))))]_vars

\* The third child has gone into a node between the two it listed.
C27_Witness ==
    /\ last.op = "internal_node_insert"
    /\ Len(last.children) = 3
    /\ internal_node_child(Page(last.after, last.parent), 1) = last.children[3]
    /\ internal_node_num_keys(Page(last.after, last.parent)) = 2

\* C28: internal_node_split_and_insert on a node with INTERNAL_NODE_MAX_KEYS
\* keys distributes its INTERNAL_NODE_MAX_KEYS + 1 children and the
\* incoming child over the old node and the new sibling: each of the
\* INTERNAL_NODE_MAX_KEYS + 2 children is listed exactly once, every child
\* of the old node has a smaller largest key than every child of the new
\* sibling, both nodes have a valid right_child, and the incoming child is
\* in the old node exactly when its largest key is below the largest key of
\* the old node after the redistribution.
C28_InternalSplit ==
    [][(/\ session = "open"
        /\ last'.op = "insert"
        /\ last'.result = EXECUTE_SUCCESS
        /\ SplitsParent(last'.key)) =>
          /\ InternalSplitDone(St, StNext, ParentOfLeaf(last'.key), num_pages, num_pages + 1)
          /\ SplitsGrandparent(last'.key) =>
                InternalSplitDone(St, StNext, node_parent(Node(ParentOfLeaf(last'.key))),
                                  num_pages + 1, num_pages + 2)]_vars

\* The last insert has split a leaf, and the page allocated last is an
\* internal node that is not the copy of a root: the new sibling of an
\* internal node that was not the root, the parent of the leaf now.
C28_Witness ==
    /\ session = "open"
    /\ last.op = "insert"
    /\ last.result = EXECUTE_SUCCESS
    /\ RootWasSplit
    /\ leaf_node_num_cells(LastLeaf) = LEAF_NODE_RIGHT_SPLIT_COUNT
    /\ get_node_type(Node(num_pages - 1)) = INTERNAL
    /\ internal_node_child(Node(0), 0) # num_pages - 1
    /\ node_parent(LastLeaf) = num_pages - 1

\* C29: every execute_insert terminates on every tree inserts reach: the
\* calls of internal_node_insert and internal_node_split_and_insert to one
\* another end (at most one split for a level of the tree), and the
\* descents of table_find and of get_node_max_key end on a leaf.
C29_InsertTerminates ==
    /\ [](session = "open" =>
            /\ \A n \in Pages : ~get_node_max_key(St, n, MaxDepth).fatal
            /\ \A key \in NearKeys : FindEnds(key))
    /\ [][last'.op = "insert" => last'.result \in {EXECUTE_SUCCESS, DUPLICATE_KEY}]_vars

\* The last insert has split a leaf, its parent and the root above it: of
\* the four pages it allocated, the three last are internal nodes and the
\* last is the copy of the root.
C29_Witness ==
    /\ session = "open"
    /\ last.op = "insert"
    /\ last.result = EXECUTE_SUCCESS
    /\ RootWasSplit
    /\ leaf_node_num_cells(LastLeaf) = LEAF_NODE_RIGHT_SPLIT_COUNT
    /\ internal_node_child(Node(0), 0) = num_pages - 1
    /\ get_node_type(Node(num_pages - 2)) = INTERNAL
    /\ get_node_type(Node(num_pages - 3)) = INTERNAL
    /\ get_node_type(Node(num_pages - 4)) = LEAF

\* C30: on every tree inserts reach, the scan of execute_select
\* (table_start, then cursor_advance again and again) ends with
\* end_of_table set after it visited every cell of every leaf exactly once;
\* the next_leaf chain has no cycle, and the cursor never rests on a cell
\* index >= num_cells of its leaf while end_of_table is false.
C30_ScanEnds ==
    /\ [](last.op = "scan" =>
            /\ Cardinality(Range(last.visited)) = Len(last.visited)
            /\ Range(last.visited) \subseteq LeafCells
            /\ ~last.end_of_table =>
                  /\ get_node_type(Node(last.page_num)) = LEAF
                  /\ last.cell_num < leaf_node_num_cells(Node(last.page_num))
                  /\ Cardinality(Range(LeafChain(last.page_num, num_pages)))
                        = Len(LeafChain(last.page_num, num_pages))
                  /\ leaf_node_next_leaf(Node(LeafChain(last.page_num, num_pages)[Len(LeafChain(last.page_num, num_pages))])) = 0
            /\ last.end_of_table => Range(last.visited) = LeafCells)
    /\ ((last.op = "scan") ~> ScanEnded)

\* A scan has ended after it went through the leaves of a tree of three
\* levels.
C30_Witness ==
    /\ last.op = "scan"
    /\ last.end_of_table
    /\ RootWasSplit
    /\ Len(last.visited) = Cardinality(accepted)
    /\ Cardinality({c[1] : c \in Range(last.visited)}) > INTERNAL_NODE_MAX_KEYS + 1

\* C31: table_start returns a cursor at cell 0 of the leftmost leaf, which
\* holds the smallest key of the table (also when key 0 itself is stored),
\* and sets end_of_table exactly when the table holds no row.
C31_TableStart ==
    last.op = "table_start" =>
        /\ last.cell_num = 0
        /\ last.page_num = Head(TreeLeaves)
        /\ last.end_of_table <=> accepted = {}
        /\ last.end_of_table <=> SubtreeKeys(0, MaxDepth) = {}
        /\ ~last.end_of_table =>
              /\ leaf_node_key(Node(last.page_num), 0) = MinOf(SubtreeKeys(0, MaxDepth))
              /\ leaf_node_key(Node(last.page_num), 0) = MinOf(Ids(accepted))

\* table_start has stopped on key 0 in the leftmost leaf of a tree of three
\* levels.
C31_Witness ==
    /\ last.op = "table_start"
    /\ RootWasSplit
    /\ 0 \in Ids(accepted)
    /\ last.cell_num = 0
    /\ leaf_node_key(Node(last.page_num), 0) = 0

\* C32: after every completed execute_insert, get_node_max_key of every
\* node reachable from the root is the largest key stored in the leaves of
\* the subtree of that node.
C32_MaxKey ==
    (session = "open" /\ accepted # {}) =>
        \A n \in NodesBelow(0, MaxDepth) :
            /\ ~get_node_max_key(St, n, MaxDepth).fatal
            /\ get_node_max_key(St, n, MaxDepth).key = SubtreeMax(n)

\* C33: Table.close writes every cached page n at page offset n of the file
\* and leaves the cache empty, never reaches the fatal branch of Pager.flush,
\* and leaves every page of the file that the session did not fetch as it was.
C33_Close ==
    [][(session = "open" /\ session' = "closed") =>
          /\ ~CloseLoop(St, 0).fatal
          /\ file' = CloseLoop(St, 0).file
          /\ cache' = EmptyCache
          /\ Len(file') >= Len(file)
          /\ \A n \in DOMAIN cache : n < Len(file') /\ file'[n + 1] = cache[n]
          /\ \A n \in 0 .. (Len(file) - 1) : n \notin DOMAIN cache => file'[n + 1] = file[n + 1]
          /\ \A n \in 0 .. (Len(file') - 1) : n \in DOMAIN cache \/ n < Len(file)]_vars

\* A closed second session that fetched some pages of the file and not
\* others, and wrote a fetched page back changed.
C33_Witness ==
    /\ session = "closed"
    /\ sessions = MaxSessions
    /\ last.op = "exit"
    /\ cache = EmptyCache
    /\ durable # {}
    /\ later > 0
    /\ Len(file) > 3

\* C34: opening a missing or empty file yields num_pages = 1 with page 0 an
\* empty leaf (num_cells 0, next_leaf 0) marked is_root; opening a file that
\* holds at least one page installs nothing and modifies no page.
C34_Open ==
    /\ [](last.op = "open" =>
            IF file = <<>>
            THEN /\ num_pages = 1
                 /\ DOMAIN cache = {0}
                 /\ get_node_type(cache[0]) = LEAF
                 /\ leaf_node_num_cells(cache[0]) = 0
                 /\ leaf_node_next_leaf(cache[0]) = 0
                 /\ is_node_root(cache[0])
            ELSE /\ num_pages = Len(file)
                 /\ cache = EmptyCache)
    /\ [][(session # "open" /\ session' = "open") => file' = file]_vars

\* A second session opened on a file of several pages.
C34_Witness ==
    /\ last.op = "open"
    /\ sessions = MaxSessions
    /\ Len(file) > 3
    /\ num_pages = Len(file)
    /\ cache = EmptyCache

\* C35: opening a file whose length is not a whole multiple of PAGE_SIZE is
\* fatal before any page is cached, and leaves the file unmodified.
C35_CorruptFile ==
    /\ []((last.op = "open" /\ last.result = "FATAL") =>
            /\ session = "dead"
            /\ cache = EmptyCache
            /\ file_length(file) % PAGE_SIZE # 0)
    /\ [][(session = "closed" /\ session' # "closed" /\ file_length(file) % PAGE_SIZE # 0) =>
            /\ last'.op = "open"
            /\ last'.result = "FATAL"
            /\ session' = "dead"
            /\ cache' = EmptyCache
            /\ file' = file]_vars

\* The program was started on a file of several pages and a tail.
C35_Witness ==
    /\ last.op = "open"
    /\ last.result = "FATAL"
    /\ session = "dead"
    /\ Len(WholePages(file)) > 3
    /\ file # WholePages(file)

\* The child positions in use: the internal nodes of the file, each with
\* the positions 0 .. num_keys of its cell children and its right_child.
ListedPlaces ==
    {pl \in Pages \X (0 .. INTERNAL_NODE_MAX_KEYS) :
        /\ get_node_type(Node(pl[1])) = INTERNAL
        /\ pl[2] <= internal_node_num_keys(Node(pl[1]))}

\* C36: after every completed execute_insert every page number below
\* num_pages is the page of exactly one node reachable from the root, and
\* every reachable node is listed as a child by exactly one internal node,
\* the root by none: no page is leaked, shared or outside the tree.  (The
\* child positions in use hold exactly the pages other than the root, and
\* there are as many positions as such pages, so none is listed twice.)
C36_NoLeak ==
    (session = "open" /\ last.op = "insert") =>
        /\ NodesBelow(0, MaxDepth) = Pages
        /\ {internal_node_child(Node(pl[1]), pl[2]) : pl \in ListedPlaces} = Pages \ {0}
        /\ Cardinality(ListedPlaces) = num_pages - 1

\* An insert was executed on a tree of three levels in which some node's
\* parent field names an internal node that does not list it.
C36_Witness ==
    /\ session = "open"
    /\ last.op = "insert"
    /\ last.result = "SUCCESS"
    /\ RootWasSplit
    /\ \E p \in Pages \ {0} :
          /\ node_parent(Node(p)) \in Pages
          /\ p \notin ChildrenOf(Node(node_parent(Node(p))))

\* C37: prepare_statement returns SUCCESS only for ids in 0 .. 2^32 - 1, so
\* execute_insert is never called with a key that does not fit the 4-byte
\* field and no accepted insert fails with a leaf half-written.
C37_IdRange ==
    last.op = "insert" =>
        /\ last.result \in {EXECUTE_SUCCESS, DUPLICATE_KEY, "FATAL"} => KeyFits(last.key)
        /\ last.result # "FATAL"

\* The call update_internal_node_key(parent, old_max, new_max) of
\* leaf_node_split_and_insert on the full leaf of page n that is not the
\* root: the cell index it writes is below num_keys of the parent and the
\* key stored there is old_max.
UpdatesSeparator(n) ==
    LET parent == Node(node_parent(Node(n)))
        old_max == MaxKey(St, n).key
        old_child_index == internal_node_find_child(parent, old_max)
    IN /\ old_child_index < internal_node_num_keys(parent)
       /\ internal_node_key(parent, old_child_index) = old_max

\* C38: every call of update_internal_node_key during an insert overwrites
\* an existing separator: the index found for old_key is below num_keys and
\* the key stored there before the write is the old maximum of the child
\* whose maximum changed, also when that child is the right_child.
C38_UpdateKey ==
    [][(/\ session = "open"
        /\ last'.op = "insert"
        /\ last'.result = EXECUTE_SUCCESS
        /\ leaf_node_num_cells(Node(table_find(St, last'.key).page_num)) = LEAF_NODE_MAX_CELLS
        /\ ~is_node_root(Node(table_find(St, last'.key).page_num))) =>
          UpdatesSeparator(table_find(St, last'.key).page_num)]_vars
====
